---- MODULE Spec2Model ----
(***************************************************************************)
(* Model of Helm's lifecycle-hook execution engine (pkg/action hooks) and  *)
(* of the release/hook accessor layer (pkg/release).                       *)
(*                                                                         *)
(* A release owns a list of hooks; the accessors hold pointers into that   *)
(* list, so executingHooks is a sequence of indices into hooks.  Strings   *)
(* that the code compares with < (hook names) are sequences of character   *)
(* codes; time.Now() is a strictly increasing clock and 0 is the zero      *)
(* time.Time.  Every call on a collaborator (cluster client, waiter,       *)
(* persistence, log retrieval) is appended to the history variable calls.  *)
(***************************************************************************)
EXTENDS Integers, Sequences, FiniteSets, TLC

\* Largest number of hooks in a release.
MaxHooks == 3
\* Longest delete-policy list handed to the accessor in SpecAccessor.
MaxPolicies == 3
\* Largest number of SetDefaultDeletePolicy applications in SpecAccessor.
MaxApply == 3
\* Largest number of names one sub-chart declares to depend on.
MaxDeps == 2
\* Largest number of dependencies of the generated charts that are installed.
MaxSubcharts == 2

VARIABLES
    schema,          \* "v1" | "v2": concrete type of the release and its hooks
    hooks,           \* rl.Hooks
    hooks0,          \* rl.Hooks as they were when the operation was called
    event,           \* the hook event that is executed
    executingHooks,  \* []ri.HookAccessor, as indices into hooks
    pc,              \* position in execHookCore / in the returned shutdown func
    i,               \* loop index of execHookCore (1-based position)
    j,               \* loop index of the running shutdown func (1-based)
    now,             \* clock behind time.Now()
    calls,           \* history of calls on callbacks and collaborators
    shutdown,        \* which ExecuteShutdownFunc execHookCore returned
    err,             \* error returned by execHookCore
    waitErr,         \* the err variable captured by the failure shutdown func
    result,          \* error returned by the shutdown func
    records,         \* history of recordRelease: the snapshots handed to storage
    applied,         \* SpecAccessor: number of SetDefaultDeletePolicy calls made
    chart,           \* the chart handed to installWithSequencing
    waitStrategy,    \* i.WaitStrategy
    wait,            \* i.Wait
    stack,           \* the running invocations of installChartWithDAG, innermost last
    kubeCalls,       \* history of the calls on i.cfg.KubeClient made by the install
    manifest,        \* i.release.Manifest, as the sequence of its documents
    installErr,      \* the error the install returned
    ipc              \* position of the install: "idle" | "traditional" | "dag" | "done"

hookVars == <<schema, hooks, hooks0, event, executingHooks, pc, i, j, now, calls,
              shutdown, err, waitErr, result, records, applied>>
installVars == <<chart, waitStrategy, wait, stack, kubeCalls, manifest, installErr, ipc>>
vars == <<hookVars, installVars>>

\* The state of the install while only the hook engine is looked at.
NoChart == [name |-> "", templates |-> <<>>, dependencies |-> <<>>]
NoInstallError == [kind |-> "nil", chart |-> "", batch |-> 0]
NotInstalling ==
    /\ chart = NoChart
    /\ waitStrategy = "hookOnly"
    /\ wait = FALSE
    /\ stack = <<>>
    /\ kubeCalls = <<>>
    /\ manifest = <<>>
    /\ installErr = NoInstallError
    /\ ipc = "idle"

(***************************************************************************)
(* Constants of pkg/release/interfaces.go                                  *)
(***************************************************************************)
HookDeletePolicyBeforeCreation == "before-hook-creation"
HookDeletePolicySucceeded == "hook-succeeded"
HookDeletePolicyFailed == "hook-failed"
HookOutputPolicySucceeded == "hook-succeeded"
HookOutputPolicyFailed == "hook-failed"
HookPhaseUnknown == "Unknown"
HookPhaseRunning == "Running"
HookPhaseSucceeded == "Succeeded"
HookPhaseFailed == "Failed"

\* v1release.HookBeforeHookCreation and v2release.HookBeforeHookCreation
v1HookBeforeHookCreation == "before-hook-creation"
v2HookBeforeHookCreation == "before-hook-creation"

Schemas == {"v1", "v2"}
DeletePolicies ==
    {HookDeletePolicyBeforeCreation, HookDeletePolicySucceeded, HookDeletePolicyFailed}

\* The zero value of HookExecution, and a record left by an earlier operation.
ZeroLastRun == [startedAt |-> 0, completedAt |-> 0, phase |-> ""]
PriorLastRun == [startedAt |-> 1, completedAt |-> 2, phase |-> HookPhaseSucceeded]
\* First value of the clock: later than every time stored in PriorLastRun.
ClockStart == PriorLastRun.completedAt + 1

\* Hook names as strings of character codes.
NameA == <<97>>
NameAB == <<97, 98>>
NameB == <<98>>

(***************************************************************************)
(* The hooks a release is built from.  a-pod and a-crd agree in weight and *)
(* name; a-crd is a CustomResourceDefinition carrying every delete policy  *)
(* and the record of an earlier run; a-pod has no delete policy; ab-twice  *)
(* names the executed event twice; a-test is not bound to it.              *)
(***************************************************************************)
HookUniverse ==
    { [path |-> "hooks/a-pod.yaml", name |-> NameA, kind |-> "Pod", weight |-> 1,
       events |-> <<"pre-install">>,
       deletePolicies |-> <<>>,
       outputLogPolicies |-> <<HookOutputPolicyFailed>>,
       lastRun |-> ZeroLastRun],
      [path |-> "hooks/b-job.yaml", name |-> NameB, kind |-> "Job", weight |-> 1,
       events |-> <<"pre-install">>,
       deletePolicies |-> <<HookDeletePolicySucceeded, HookDeletePolicyFailed>>,
       outputLogPolicies |-> <<HookOutputPolicySucceeded>>,
       lastRun |-> ZeroLastRun],
      [path |-> "hooks/a-crd.yaml", name |-> NameA, kind |-> "CustomResourceDefinition",
       weight |-> 1,
       events |-> <<"pre-install">>,
       deletePolicies |-> <<HookDeletePolicyBeforeCreation, HookDeletePolicySucceeded,
                            HookDeletePolicyFailed>>,
       outputLogPolicies |-> <<HookOutputPolicySucceeded, HookOutputPolicyFailed>>,
       lastRun |-> PriorLastRun],
      [path |-> "hooks/ab-twice.yaml", name |-> NameAB, kind |-> "ConfigMap", weight |-> 2,
       events |-> <<"pre-install", "post-install", "pre-install">>,
       deletePolicies |-> <<HookDeletePolicySucceeded>>,
       outputLogPolicies |-> <<>>,
       lastRun |-> ZeroLastRun],
      [path |-> "hooks/a-test.yaml", name |-> NameA, kind |-> "Job", weight |-> -1,
       events |-> <<"post-install">>,
       deletePolicies |-> <<HookDeletePolicyFailed>>,
       outputLogPolicies |-> <<>>,
       lastRun |-> PriorLastRun] }

\* The events execHook is called with.
HookEvents == {"pre-install"}

\* All sequences over S of length at most n.
RECURSIVE SeqsUpTo(_, _)
SeqsUpTo(S, n) ==
    IF n = 0 THEN {<<>>}
    ELSE LET shorter == SeqsUpTo(S, n - 1)
         IN shorter \cup {Append(s, x) : s \in {t \in shorter : Len(t) = n - 1}, x \in S}

(***************************************************************************)
(* Errors.  nil is NoError; every other error names the call that failed   *)
(* and the hook (index into hooks) it failed for.                          *)
(***************************************************************************)
NoError == [msg |-> "nil", hook |-> 0]
Error(m, h) == [msg |-> m, hook |-> h]

\* One entry of the call history: the call, the position in executingHooks and
\* the hook it is made for, its argument, and for deleteByPolicy the error it
\* returned.
CallReturning(op, pos, h, arg, e) ==
    [op |-> op, pos |-> pos, hook |-> h, arg |-> arg, err |-> e]
Call(op, pos, h, arg) == CallReturning(op, pos, h, arg, NoError)

Range(s) == {s[k] : k \in 1..Len(s)}

(***************************************************************************)
(* pkg/release: v1HookAccessor and v2HookAccessor.  An accessor method     *)
(* that mutates the hook returns the hook's new value.                     *)
(***************************************************************************)
v1HasEvent(h, e) == \E k \in 1..Len(h.events) : h.events[k] = e

v1HasDeletePolicy(h, policy) ==
    \E k \in 1..Len(h.deletePolicies) : h.deletePolicies[k] = policy

\* A defaulting that adds the policy whenever the hook does not carry it.
v1AddDefaultDeletePolicy(h) ==
    IF v1HasDeletePolicy(h, v1HookBeforeHookCreation)
    THEN h
    ELSE [h EXCEPT !.deletePolicies = Append(@, v1HookBeforeHookCreation)]

v1SetDefaultDeletePolicy(h) ==
    IF Len(h.deletePolicies) = 0
    THEN [h EXCEPT !.deletePolicies = <<v1HookBeforeHookCreation>>]
    ELSE h

v1HasOutputLogPolicy(h, policy) ==
    \E k \in 1..Len(h.outputLogPolicies) : h.outputLogPolicies[k] = policy

v1SetLastRunStarted(h, t) ==
    [h EXCEPT !.lastRun = [startedAt |-> t, completedAt |-> 0, phase |-> HookPhaseRunning]]

v1SetLastRunPhase(h, phase) == [h EXCEPT !.lastRun.phase = phase]

\* A completion mark that lands in StartedAt.
v1SetLastRunCompletedAsStarted(h, t) == [h EXCEPT !.lastRun.startedAt = t]

v1SetLastRunCompleted(h, t) == [h EXCEPT !.lastRun.completedAt = t]

v2HasEvent(h, e) == \E k \in 1..Len(h.events) : h.events[k] = e

\* A lookup that only sees the first delete policy of the hook.
v2HasDeletePolicyFirst(h, policy) ==
    Len(h.deletePolicies) > 0 /\ h.deletePolicies[1] = policy

v2HasDeletePolicy(h, policy) ==
    \E k \in 1..Len(h.deletePolicies) : h.deletePolicies[k] = policy

v2SetDefaultDeletePolicy(h) ==
    IF Len(h.deletePolicies) = 0
    THEN [h EXCEPT !.deletePolicies = <<v2HookBeforeHookCreation>>]
    ELSE h

v2HasOutputLogPolicy(h, policy) ==
    \E k \in 1..Len(h.outputLogPolicies) : h.outputLogPolicies[k] = policy

v2SetLastRunStarted(h, t) ==
    [h EXCEPT !.lastRun = [startedAt |-> t, completedAt |-> 0, phase |-> HookPhaseRunning]]

v2SetLastRunPhase(h, phase) == [h EXCEPT !.lastRun.phase = phase]

v2SetLastRunCompleted(h, t) == [h EXCEPT !.lastRun.completedAt = t]

\* The HookAccessor interface: dispatch on the concrete type that
\* newDefaultHookAccessor wrapped.
HasEvent(sch, h, e) == IF sch = "v1" THEN v1HasEvent(h, e) ELSE v2HasEvent(h, e)

HasDeletePolicy(sch, h, policy) ==
    IF sch = "v1" THEN v1HasDeletePolicy(h, policy) ELSE v2HasDeletePolicy(h, policy)

SetDefaultDeletePolicy(sch, h) ==
    IF sch = "v1" THEN v1SetDefaultDeletePolicy(h) ELSE v2SetDefaultDeletePolicy(h)

HasOutputLogPolicy(sch, h, policy) ==
    IF sch = "v1" THEN v1HasOutputLogPolicy(h, policy) ELSE v2HasOutputLogPolicy(h, policy)

SetLastRunStarted(sch, h, t) ==
    IF sch = "v1" THEN v1SetLastRunStarted(h, t) ELSE v2SetLastRunStarted(h, t)

SetLastRunPhase(sch, h, phase) ==
    IF sch = "v1" THEN v1SetLastRunPhase(h, phase) ELSE v2SetLastRunPhase(h, phase)

SetLastRunCompleted(sch, h, t) ==
    IF sch = "v1" THEN v1SetLastRunCompleted(h, t) ELSE v2SetLastRunCompleted(h, t)

(***************************************************************************)
(* execHookWithDelayedShutdown: the list of executing hooks.  The inner    *)
(* loop over h.Events appends the hook once for every element of Events    *)
(* that equals the event.                                                  *)
(***************************************************************************)
EventMatches(h, e) == {k \in 1..Len(h.events) : h.events[k] = e}

RECURSIVE BuildExecutingHooks(_, _, _)
BuildExecutingHooks(hs, n, e) ==
    IF n = 0 THEN <<>>
    ELSE BuildExecutingHooks(hs, n - 1, e)
         \o [k \in 1..Cardinality(EventMatches(hs[n], e)) |-> n]

(***************************************************************************)
(* execHookCore: sort.SliceStable with the less function of lines 68-73.   *)
(***************************************************************************)
\* Go's < on strings: lexicographic comparison of the bytes.
StrLess(a, b) ==
    \E k \in 1..(Len(b)) :
        /\ k <= Len(a) + 1
        /\ \A m \in 1..(k - 1) : a[m] = b[m]
        /\ (k = Len(a) + 1 \/ a[k] < b[k])

\* The less function without the comparison of the names.
LessByWeightOnly(hs, a, b) == hs[a].weight < hs[b].weight

Less(hs, a, b) ==
    IF hs[a].weight = hs[b].weight
    THEN StrLess(hs[a].name, hs[b].name)
    ELSE hs[a].weight < hs[b].weight

\* One step of an insertion sort that is not stable: x goes in front of the
\* first element that it is not greater than.
InsertFirst(sorted, x, hs) ==
    LET before == {k \in 1..Len(sorted) : Less(hs, sorted[k], x)}
        at == IF before = {} THEN 0
              ELSE CHOOSE k \in before : \A m \in before : m <= k
    IN SubSeq(sorted, 1, at) \o <<x>> \o SubSeq(sorted, at + 1, Len(sorted))

\* One step of a stable insertion sort: x goes behind the last element that
\* it is not less than.
InsertStable(sorted, x, hs) ==
    LET notAfter == {k \in 1..Len(sorted) : ~Less(hs, x, sorted[k])}
        at == IF notAfter = {} THEN 0
              ELSE CHOOSE k \in notAfter : \A m \in notAfter : m <= k
    IN SubSeq(sorted, 1, at) \o <<x>> \o SubSeq(sorted, at + 1, Len(sorted))

RECURSIVE SliceStable(_, _, _)
SliceStable(s, n, hs) ==
    IF n = 0 THEN <<>>
    ELSE InsertStable(SliceStable(s, n - 1, hs), s[n], hs)

\* The sort of execHookCore, lines 68-73.
SortExecutingHooks(s, hs) == SliceStable(s, Len(s), hs)

(***************************************************************************)
(* deleteHookByPolicyGeneric.  outcome names the collaborator call that    *)
(* fails ("ok": none).  The value is the calls made and the error returned.*)
(***************************************************************************)
DeleteOutcomes == {"ok", "build", "delete", "getWaiter", "waitForDelete"}

\* Lines 217-235: the deletion proper.
DeleteIfPolicy(sch, pos, hk, h, policy, outcome) ==
    IF ~HasDeletePolicy(sch, h, policy)
    THEN [calls |-> <<>>, err |-> NoError]
    ELSE IF outcome = "build"
    THEN [calls |-> <<Call("Build", pos, hk, "")>>,
          err |-> Error("unable to build kubernetes object for deleting hook", hk)]
    ELSE IF outcome = "delete"
    THEN [calls |-> <<Call("Build", pos, hk, ""), Call("Delete", pos, hk, policy)>>,
          err |-> Error("delete", hk)]
    ELSE IF outcome = "getWaiter"
    THEN [calls |-> <<Call("Build", pos, hk, ""), Call("Delete", pos, hk, policy),
                      Call("GetWaiter", pos, hk, "")>>,
          err |-> Error("getWaiter", hk)]
    ELSE IF outcome = "waitForDelete"
    THEN [calls |-> <<Call("Build", pos, hk, ""), Call("Delete", pos, hk, policy),
                      Call("GetWaiter", pos, hk, ""), Call("WaitForDelete", pos, hk, "")>>,
          err |-> Error("waitForDelete", hk)]
    ELSE [calls |-> <<Call("Build", pos, hk, ""), Call("Delete", pos, hk, policy),
                      Call("GetWaiter", pos, hk, ""), Call("WaitForDelete", pos, hk, "")>>,
          err |-> NoError]

\* deleteHookByPolicyGeneric without the guard on the kind.
deleteHookByPolicyAnyKind(sch, pos, hk, h, policy, outcome) ==
    DeleteIfPolicy(sch, pos, hk, h, policy, outcome)

deleteHookByPolicyGeneric(sch, pos, hk, h, policy, outcome) ==
    IF h.kind = "CustomResourceDefinition"
    THEN [calls |-> <<>>, err |-> NoError]
    ELSE DeleteIfPolicy(sch, pos, hk, h, policy, outcome)

\* callbacks.deleteByPolicy, lines 169-171 and 308-310.
deleteByPolicy(sch, pos, hk, h, policy, outcome) ==
    LET r == deleteHookByPolicyGeneric(sch, pos, hk, h, policy, outcome)
    IN [calls |-> <<CallReturning("deleteByPolicy", pos, hk, policy, r.err)>> \o r.calls,
        err |-> r.err]

(***************************************************************************)
(* outputLogsByPolicyGeneric with deriveNamespaceGeneric and               *)
(* outputContainerLogsForListOptions.                                      *)
(***************************************************************************)
LogOutcomes == {"ok", "namespace", "podList", "output"}

outputLogsByPolicyGeneric(sch, pos, hk, h, policy, outcome) ==
    IF ~HasOutputLogPolicy(sch, h, policy)
    THEN [calls |-> <<>>, err |-> NoError]
    ELSE IF outcome = "namespace"
    THEN [calls |-> <<>>, err |-> Error("unable to parse metadata.namespace", hk)]
    ELSE IF h.kind \in {"Job", "Pod"}
    THEN IF outcome = "podList"
         THEN [calls |-> <<Call("GetPodList", pos, hk, h.kind)>>,
               err |-> Error("getPodList", hk)]
         ELSE [calls |-> <<Call("GetPodList", pos, hk, h.kind),
                           Call("OutputContainerLogsForPodList", pos, hk, "")>>,
               err |-> IF outcome = "output" THEN Error("outputLogs", hk) ELSE NoError]
    ELSE [calls |-> <<>>, err |-> NoError]

\* callbacks.outputLogsByPolicy, lines 172-174 and 311-313.
outputLogsByPolicy(sch, pos, hk, h, policy, outcome) ==
    LET r == outputLogsByPolicyGeneric(sch, pos, hk, h, policy, outcome)
    IN [calls |-> <<Call("outputLogsByPolicy", pos, hk, policy)>> \o r.calls, err |-> r.err]

\* callbacks.recordRelease: cfg.recordRelease(rl) for a v1 release,
\* cfg.Releases.Update(rl) for a v2 release.
recordRelease(sch, pos, hk) ==
    Call(IF sch = "v1" THEN "recordRelease" ELSE "Releases.Update", pos, hk, "")

(***************************************************************************)
(* The state before execHookWithDelayedShutdown is called.                 *)
(***************************************************************************)
Init ==
    /\ schema \in Schemas
    /\ hooks \in SeqsUpTo(HookUniverse, MaxHooks)
    /\ hooks0 = hooks
    /\ event \in HookEvents
    /\ executingHooks = <<>>
    /\ pc = "idle"
    /\ i = 0
    /\ j = 0
    /\ now = ClockStart
    /\ calls = <<>>
    /\ shutdown = "none"
    /\ err = NoError
    /\ waitErr = NoError
    /\ result = NoError
    /\ records = <<>>
    /\ applied = 0
    /\ NotInstalling

\* The marks of a failed creation without the completion time.
MarkCreateFailedOnly(sch, h, t) == SetLastRunPhase(sch, h, HookPhaseFailed)

\* Lines 101-102: the marks set when KubeClient.Create fails.
MarkCreateFailed(sch, h, t) ==
    SetLastRunPhase(sch, SetLastRunCompleted(sch, h, t), HookPhaseFailed)

\* The loop condition with <= for <.
PrevLoopInclusive(jj, ii) == jj <= ii

\* Line 127: the loop condition of "Delete previous successful hooks", for
\* the 1-based positions jj and ii.
PrevLoopCondition(jj, ii) == jj < ii

\* The reverse walk starting one hook too low.
SuccLoopSkipLast(n) == n - 1

\* Line 140: the position the reverse walk starts at, of n executed hooks.
SuccLoopFirst(n) == n

\* return shutdownNoOp, e
ReturnNoOp(e) ==
    /\ pc' = "returned"
    /\ shutdown' = "noop"
    /\ err' = e

(***************************************************************************)
(* execHookWithDelayedShutdown / execHookWithDelayedShutdownV3 up to the   *)
(* first iteration of execHookCore: select the hooks, sort them.           *)
(***************************************************************************)
execHookWithDelayedShutdown ==
    /\ pc = "idle"
    /\ LET selected == BuildExecutingHooks(hooks, Len(hooks), event)
       IN executingHooks' = SortExecutingHooks(selected, hooks)
    /\ IF Len(executingHooks') = 0
       THEN /\ pc' = "returned"
            /\ shutdown' = "success"
            /\ i' = i
       ELSE /\ pc' = "preDelete"
            /\ shutdown' = shutdown
            /\ i' = 1
    /\ UNCHANGED <<schema, hooks, hooks0, event, j, now, calls, err, waitErr, result,
                   records, applied>>
    /\ UNCHANGED installVars

\* Lines 76-81: default the delete policy, delete by before-hook-creation.
PreDeleteFor(sch) ==
    /\ pc = "preDelete"
    /\ LET hk == executingHooks[i]
           h == SetDefaultDeletePolicy(sch, hooks[hk])
       IN /\ hooks' = [hooks EXCEPT ![hk] = h]
          /\ \E outcome \in DeleteOutcomes :
                LET r == deleteByPolicy(sch, i, hk, h, HookDeletePolicyBeforeCreation,
                                        outcome)
                IN /\ calls' = calls \o r.calls
                   /\ IF r.err # NoError
                      THEN ReturnNoOp(r.err)
                      ELSE /\ pc' = "build"
                           /\ UNCHANGED <<shutdown, err>>
    /\ UNCHANGED <<schema, hooks0, event, executingHooks, i, j, now, waitErr, result,
                   records, applied>>
    /\ UNCHANGED installVars

\* A PreDelete that deletes by the policies the hook carried before the
\* default was set.
PreDeleteBeforeDefault ==
    /\ pc = "preDelete"
    /\ LET hk == executingHooks[i]
           h == SetDefaultDeletePolicy(schema, hooks[hk])
       IN /\ hooks' = [hooks EXCEPT ![hk] = h]
          /\ \E outcome \in DeleteOutcomes :
                LET r == deleteByPolicy(schema, i, hk, hooks[hk],
                                        HookDeletePolicyBeforeCreation, outcome)
                IN /\ calls' = calls \o r.calls
                   /\ IF r.err # NoError
                      THEN ReturnNoOp(r.err)
                      ELSE /\ pc' = "build"
                           /\ UNCHANGED <<shutdown, err>>
    /\ UNCHANGED <<schema, hooks0, event, executingHooks, i, j, now, waitErr, result,
                   records, applied>>
    /\ UNCHANGED installVars

\* PreDelete for the schema of the release at hand.
PreDelete == PreDeleteFor(schema)

\* A Build step that handles its failure the way a failed creation is
\* handled: the hook is marked completed and Failed.
BuildMarkingFailure ==
    /\ pc = "build"
    /\ LET hk == executingHooks[i]
       IN /\ calls' = Append(calls, Call("Build", i, hk, "validate"))
          /\ \E ok \in BOOLEAN :
                IF ok
                THEN /\ pc' = "record"
                     /\ UNCHANGED <<hooks, now, shutdown, err>>
                ELSE /\ hooks' = [hooks EXCEPT ![hk] = MarkCreateFailed(schema, @, now)]
                     /\ now' = now + 1
                     /\ ReturnNoOp(Error("unable to build kubernetes object", hk))
    /\ UNCHANGED <<schema, hooks0, event, executingHooks, i, j, waitErr, result, records,
                   applied>>
    /\ UNCHANGED installVars

\* Lines 83-86: KubeClient.Build.
Build ==
    /\ pc = "build"
    /\ LET hk == executingHooks[i]
       IN /\ calls' = Append(calls, Call("Build", i, hk, "validate"))
          /\ \E ok \in BOOLEAN :
                IF ok
                THEN /\ pc' = "record"
                     /\ UNCHANGED <<shutdown, err>>
                ELSE ReturnNoOp(Error("unable to build kubernetes object", hk))
    /\ UNCHANGED <<schema, hooks, hooks0, event, executingHooks, i, j, now, waitErr,
                   result, records, applied>>
    /\ UNCHANGED installVars

\* Lines 88-95: mark the start, record the release, fall back to Unknown.
RecordFor(sch, persist) ==
    /\ pc = "record"
    /\ LET hk == executingHooks[i]
           started == [hooks EXCEPT ![hk] = SetLastRunStarted(sch, @, now)]
       IN /\ records' = Append(records, [pos |-> i, hook |-> hk, hooks |-> started])
          /\ calls' = Append(calls, recordRelease(persist, i, hk))
          /\ hooks' = [started EXCEPT ![hk] = SetLastRunPhase(sch, @, HookPhaseUnknown)]
    /\ now' = now + 1
    /\ pc' = "create"
    /\ UNCHANGED <<schema, hooks0, event, executingHooks, i, j, shutdown, err, waitErr,
                   result, applied>>
    /\ UNCHANGED installVars

\* Record without the fallback of line 95: the phase stays Running.
RecordLeavingRunning ==
    /\ pc = "record"
    /\ LET hk == executingHooks[i]
           started == [hooks EXCEPT ![hk] = SetLastRunStarted(schema, @, now)]
       IN /\ records' = Append(records, [pos |-> i, hook |-> hk, hooks |-> started])
          /\ calls' = Append(calls, recordRelease(schema, i, hk))
          /\ hooks' = started
    /\ now' = now + 1
    /\ pc' = "create"
    /\ UNCHANGED <<schema, hooks0, event, executingHooks, i, j, shutdown, err, waitErr,
                   result, applied>>
    /\ UNCHANGED installVars

\* Record for the schema of the release at hand.
Record == RecordFor(schema, schema)

\* Lines 97-104: KubeClient.Create.
CreateFor(sch) ==
    /\ pc = "create"
    /\ LET hk == executingHooks[i]
       IN /\ calls' = Append(calls, Call("Create", i, hk, ""))
          /\ \E ok \in BOOLEAN :
                IF ok
                THEN /\ pc' = "getWaiter"
                     /\ UNCHANGED <<hooks, now, shutdown, err>>
                ELSE /\ hooks' = [hooks EXCEPT ![hk] = MarkCreateFailed(sch, @, now)]
                     /\ now' = now + 1
                     /\ ReturnNoOp(Error("warning: Hook failed", hk))
    /\ UNCHANGED <<schema, hooks0, event, executingHooks, i, j, waitErr, result, records,
                   applied>>
    /\ UNCHANGED installVars

\* Create for the schema of the release at hand.
Create == CreateFor(schema)

\* Lines 106-109: KubeClient.GetWaiter.
GetWaiter ==
    /\ pc = "getWaiter"
    /\ LET hk == executingHooks[i]
       IN /\ calls' = Append(calls, Call("GetWaiter", i, hk, ""))
          /\ \E ok \in BOOLEAN :
                IF ok
                THEN /\ pc' = "wait"
                     /\ UNCHANGED <<shutdown, err>>
                ELSE ReturnNoOp(Error("unable to get waiter", hk))
    /\ UNCHANGED <<schema, hooks, hooks0, event, executingHooks, i, j, now, waitErr,
                   result, records, applied>>
    /\ UNCHANGED installVars

\* Lines 110-116 and 135-150: waiter.WatchUntilReady and the marks after it.
WatchUntilReadyFor(sch) ==
    /\ pc = "wait"
    /\ LET hk == executingHooks[i]
           completed == SetLastRunCompleted(sch, hooks[hk], now)
       IN /\ calls' = Append(calls, Call("WatchUntilReady", i, hk, ""))
          /\ \E ok \in BOOLEAN :
                IF ok
                THEN /\ hooks' = [hooks EXCEPT ![hk] =
                            SetLastRunPhase(sch, completed, HookPhaseSucceeded)]
                     /\ waitErr' = waitErr
                     /\ IF i < Len(executingHooks)
                        THEN /\ i' = i + 1
                             /\ pc' = "preDelete"
                             /\ shutdown' = shutdown
                        ELSE /\ i' = i
                             /\ pc' = "returned"
                             /\ shutdown' = "success"
                ELSE /\ hooks' = [hooks EXCEPT ![hk] =
                            SetLastRunPhase(sch, completed, HookPhaseFailed)]
                     /\ waitErr' = Error("WatchUntilReady", hk)
                     /\ i' = i
                     /\ pc' = "logsFailed"
                     /\ shutdown' = shutdown
    /\ now' = now + 1
    /\ UNCHANGED <<schema, hooks0, event, executingHooks, j, err, result, records, applied>>
    /\ UNCHANGED installVars

\* WatchUntilReady for the schema of the release at hand.
WatchUntilReady == WatchUntilReadyFor(schema)

\* Lines 117-133: best-effort logs of the failed hook, return the cleanup.
OutputLogsFailedFor(sch) ==
    /\ pc = "logsFailed"
    /\ LET hk == executingHooks[i]
       IN \E outcome \in LogOutcomes :
             calls' = calls \o outputLogsByPolicy(sch, i, hk, hooks[hk],
                                                  HookOutputPolicyFailed, outcome).calls
    /\ pc' = "returned"
    /\ shutdown' = "failure"
    /\ err' = waitErr
    /\ UNCHANGED <<schema, hooks, hooks0, event, executingHooks, i, j, now, waitErr,
                   result, records, applied>>
    /\ UNCHANGED installVars

\* A failure path that gives up with the error of the log retrieval.
OutputLogsFailedReturning ==
    /\ pc = "logsFailed"
    /\ LET hk == executingHooks[i]
       IN \E outcome \in LogOutcomes :
             LET r == outputLogsByPolicy(schema, i, hk, hooks[hk], HookOutputPolicyFailed,
                                         outcome)
             IN /\ calls' = calls \o r.calls
                /\ pc' = "returned"
                /\ IF r.err # NoError
                   THEN shutdown' = "noop" /\ err' = r.err
                   ELSE shutdown' = "failure" /\ err' = waitErr
    /\ UNCHANGED <<schema, hooks, hooks0, event, executingHooks, i, j, now, waitErr,
                   result, records, applied>>
    /\ UNCHANGED installVars

\* OutputLogsFailed for the schema of the release at hand.
OutputLogsFailed == OutputLogsFailedFor(schema)

\* An execHook that returns what the cleanup returned, whatever execute
\* returned.
execHookReturningCleanup(e, r) == r

\* execHook and execHookV3, lines 36-48 and 277-289: the value returned when
\* execute returned the error e with a shutdown func that returned r.
execHook(e, r) ==
    IF e # NoError
    THEN IF r # NoError THEN r ELSE e
    ELSE r

(***************************************************************************)
(* The caller invokes the ExecuteShutdownFunc it was handed.               *)
(***************************************************************************)
InvokeShutdown ==
    /\ pc = "returned"
    /\ pc' = CASE shutdown = "noop" -> "shutdownNoOp"
               [] shutdown = "failure" -> "failedDelete"
               [] shutdown = "success" -> "succLoop"
    /\ j' = IF shutdown = "success" THEN SuccLoopFirst(Len(executingHooks)) ELSE 1
    /\ UNCHANGED <<schema, hooks, hooks0, event, executingHooks, i, now, calls, shutdown,
                   err, waitErr, result, records, applied>>
    /\ UNCHANGED installVars

\* Lines 52-54.
shutdownNoOp ==
    /\ pc = "shutdownNoOp"
    /\ result' = NoError
    /\ pc' = "done"
    /\ UNCHANGED <<schema, hooks, hooks0, event, executingHooks, i, j, now, calls,
                   shutdown, err, waitErr, records, applied>>
    /\ UNCHANGED installVars

\* Lines 122-125: delete the failed hook, the error is only logged.
FailedDeleteFor(sch) ==
    /\ pc = "failedDelete"
    /\ LET hk == executingHooks[i]
       IN \E outcome \in DeleteOutcomes :
             calls' = calls \o deleteByPolicy(sch, i, hk, hooks[hk],
                                              HookDeletePolicyFailed, outcome).calls
    /\ pc' = "prevLoop"
    /\ UNCHANGED <<schema, hooks, hooks0, event, executingHooks, i, j, now, shutdown, err,
                   waitErr, result, records, applied>>
    /\ UNCHANGED installVars

\* A failure cleanup that returns the error of deleting the failed hook.
FailedDeleteReturning ==
    /\ pc = "failedDelete"
    /\ LET hk == executingHooks[i]
       IN \E outcome \in DeleteOutcomes :
             LET r == deleteByPolicy(schema, i, hk, hooks[hk], HookDeletePolicyFailed,
                                     outcome)
             IN /\ calls' = calls \o r.calls
                /\ IF r.err # NoError
                   THEN /\ result' = r.err
                        /\ pc' = "done"
                   ELSE /\ result' = result
                        /\ pc' = "prevLoop"
    /\ UNCHANGED <<schema, hooks, hooks0, event, executingHooks, i, j, now, shutdown, err,
                   waitErr, records, applied>>
    /\ UNCHANGED installVars

\* FailedDelete for the schema of the release at hand.
FailedDelete == FailedDeleteFor(schema)

\* Lines 126-132: delete the hooks that succeeded before, then return err.
PrevDeleteFor(sch) ==
    /\ pc = "prevLoop"
    /\ IF PrevLoopCondition(j, i)
       THEN LET hk == executingHooks[j]
            IN \E outcome \in DeleteOutcomes :
                  LET r == deleteByPolicy(sch, j, hk, hooks[hk],
                                          HookDeletePolicySucceeded, outcome)
                  IN /\ calls' = calls \o r.calls
                     /\ IF r.err # NoError
                        THEN /\ result' = r.err
                             /\ pc' = "done"
                             /\ j' = j
                        ELSE /\ result' = result
                             /\ pc' = pc
                             /\ j' = j + 1
       ELSE /\ result' = waitErr
            /\ pc' = "done"
            /\ UNCHANGED <<calls, j>>
    /\ UNCHANGED <<schema, hooks, hooks0, event, executingHooks, i, now, shutdown, err,
                   waitErr, records, applied>>
    /\ UNCHANGED installVars

\* PrevDelete for the schema of the release at hand.
PrevDelete == PrevDeleteFor(schema)

\* Lines 138-144 and 149: the reverse walk, logs of the hook at j.
SuccLogsFor(sch) ==
    /\ pc = "succLoop"
    /\ IF j >= 1
       THEN LET hk == executingHooks[j]
            IN /\ \E outcome \in LogOutcomes :
                     calls' = calls \o outputLogsByPolicy(sch, j, hk, hooks[hk],
                                            HookOutputPolicySucceeded, outcome).calls
               /\ pc' = "succDelete"
               /\ result' = result
       ELSE /\ result' = NoError
            /\ pc' = "done"
            /\ calls' = calls
    /\ UNCHANGED <<schema, hooks, hooks0, event, executingHooks, i, j, now, shutdown, err,
                   waitErr, records, applied>>
    /\ UNCHANGED installVars

\* SuccLogs for the schema of the release at hand.
SuccLogs == SuccLogsFor(schema)

\* Lines 145-147: the reverse walk, deletion of the hook at j.
SuccDeleteFor(sch) ==
    /\ pc = "succDelete"
    /\ LET hk == executingHooks[j]
       IN \E outcome \in DeleteOutcomes :
             LET r == deleteByPolicy(sch, j, hk, hooks[hk],
                                     HookDeletePolicySucceeded, outcome)
             IN /\ calls' = calls \o r.calls
                /\ IF r.err # NoError
                   THEN /\ result' = r.err
                        /\ pc' = "done"
                        /\ j' = j
                   ELSE /\ result' = result
                        /\ pc' = "succLoop"
                        /\ j' = j - 1
    /\ UNCHANGED <<schema, hooks, hooks0, event, executingHooks, i, now, shutdown, err,
                   waitErr, records, applied>>
    /\ UNCHANGED installVars

\* A reverse walk that only logs a deletion error and goes on.
SuccDeleteBestEffort ==
    /\ pc = "succDelete"
    /\ LET hk == executingHooks[j]
       IN \E outcome \in DeleteOutcomes :
             calls' = calls \o deleteByPolicy(schema, j, hk, hooks[hk],
                                              HookDeletePolicySucceeded, outcome).calls
    /\ pc' = "succLoop"
    /\ j' = j - 1
    /\ UNCHANGED <<schema, hooks, hooks0, event, executingHooks, i, now, shutdown, err,
                   waitErr, result, records, applied>>
    /\ UNCHANGED installVars

\* SuccDelete for the schema of the release at hand.
SuccDelete == SuccDeleteFor(schema)

Next ==
    \/ execHookWithDelayedShutdown
    \/ PreDelete
    \/ Build
    \/ Record
    \/ Create
    \/ GetWaiter
    \/ WatchUntilReady
    \/ OutputLogsFailed
    \/ InvokeShutdown
    \/ shutdownNoOp
    \/ FailedDelete
    \/ PrevDelete
    \/ SuccLogs
    \/ SuccDelete

Spec == Init /\ [][Next]_vars

(***************************************************************************)
(* Vocabulary of the properties.                                           *)
(***************************************************************************)
Returned == pc \in {"returned", "shutdownNoOp", "failedDelete", "prevLoop", "succLoop",
                    "succDelete", "done"}
Executing == pc \in {"preDelete", "build", "record", "create", "getWaiter", "wait",
                     "logsFailed"}

IsCreate(c) == c.op = "Create"
IsClusterDelete(c) == c.op = "Delete"
\* deleteByPolicy as called by a shutdown func (execHookCore itself only
\* passes before-hook-creation).
IsCleanupDelete(c) ==
    c.op = "deleteByPolicy" /\ c.arg # HookDeletePolicyBeforeCreation
\* A callback called by the shutdown func returned when all hooks succeeded.
IsSuccessCleanup(c) ==
    \/ c.op = "outputLogsByPolicy" /\ c.arg = HookOutputPolicySucceeded
    \/ c.op = "deleteByPolicy" /\ c.arg = HookDeletePolicySucceeded

\* What a shutdown func called deleteByPolicy with; for the failure cleanup,
\* its calls for the hooks that succeeded before.
CleanupDeletes == SelectSeq(calls, IsCleanupDelete)
PrevDeletes == SubSeq(CleanupDeletes, 2, Len(CleanupDeletes))
FailedPrevDeletes == {k \in 1..Len(PrevDeletes) : PrevDeletes[k].err # NoError}

IsPrefix(s, t) == Len(s) <= Len(t) /\ \A k \in 1..Len(s) : s[k] = t[k]
PosArg(s) == [k \in 1..Len(s) |-> <<s[k].pos, s[k].arg>>]
OpPos(s) == [k \in 1..Len(s) |-> <<s[k].op, s[k].pos>>]

\* The alphabetical order of the names of HookUniverse, written out.
NameRank(n) == CASE n = NameA -> 1 [] n = NameAB -> 2 [] n = NameB -> 3

HookAt(p) == hooks[executingHooks[p]]

\* C1: execute applies the hooks bound to the event one at a time, in the
\* order of a stable sort by (weight ascending, name ascending): the
\* executing sequence holds exactly the bound hooks, is ascending in
\* (weight, name), keeps hooks equal in both in the order of the release's
\* hook list, the k-th creation call is for the k-th hook of that sequence,
\* no call for a hook is made before the calls of an earlier hook are over,
\* and every hook has been created when all succeeded.
C1_SortedExecution ==
    pc # "idle" =>
        LET n == Len(executingHooks)
            creates == SelectSeq(calls, IsCreate)
        IN /\ Range(executingHooks) =
                  {k \in 1..Len(hooks) : \E m \in 1..Len(hooks[k].events) :
                                             hooks[k].events[m] = event}
           /\ \A p, q \in 1..n :
                 p < q =>
                    \/ HookAt(p).weight < HookAt(q).weight
                    \/ /\ HookAt(p).weight = HookAt(q).weight
                       /\ NameRank(HookAt(p).name) < NameRank(HookAt(q).name)
                    \/ /\ HookAt(p).weight = HookAt(q).weight
                       /\ HookAt(p).name = HookAt(q).name
                       /\ executingHooks[p] <= executingHooks[q]
           /\ Len(creates) <= n
           /\ \A k \in 1..Len(creates) :
                 creates[k].pos = k /\ creates[k].hook = executingHooks[k]
           /\ Executing =>
                 \A a, b \in 1..Len(calls) : a < b => calls[a].pos <= calls[b].pos
           /\ (Returned /\ shutdown = "success") => Len(creates) = n

\* Three hooks were created, in an order that differs from the release's
\* list, two of them equal in weight and name.
C1_Witness ==
    /\ Returned /\ shutdown = "success"
    /\ Len(SelectSeq(calls, IsCreate)) = 3
    /\ \E p \in 1..2 : executingHooks[p] > executingHooks[p + 1]
    /\ \E p \in 1..2 :
          /\ HookAt(p).weight = HookAt(p + 1).weight
          /\ HookAt(p).name = HookAt(p + 1).name
          /\ executingHooks[p] # executingHooks[p + 1]

\* What the failure cleanup is to call: hook-failed for the failed hook at ii,
\* then hook-succeeded for the positions before it, ascending.
FailureCleanupOrder(ii) ==
    <<<<ii, HookDeletePolicyFailed>>>> \o [k \in 1..(ii - 1) |-> <<k, HookDeletePolicySucceeded>>]

\* C2: when the wait of the hook at position i failed, the cleanup calls
\* delete-by-policy "hook-failed" for that hook first and then
\* "hook-succeeded" for the earlier positions in ascending order (all of
\* them unless one of these deletions fails), and no hook at a later position
\* is ever deleted, built, created or waited on.
C2_FailureCleanupOrder ==
    shutdown = "failure" =>
        LET deletes == PosArg(SelectSeq(calls, IsCleanupDelete))
        IN /\ IsPrefix(deletes, FailureCleanupOrder(i))
           /\ pc \in {"prevLoop", "done"} => Len(deletes) >= 1
           /\ (pc = "done" /\ FailedPrevDeletes = {}) => deletes = FailureCleanupOrder(i)
           /\ \A k \in 1..Len(calls) : calls[k].pos <= i

\* The second of three hooks failed; the cleanup deleted it and then the
\* first hook in the cluster.
C2_Witness ==
    /\ pc = "done" /\ shutdown = "failure" /\ result = err
    /\ i = 2 /\ Len(executingHooks) = 3
    /\ \E a, b \in 1..Len(calls) :
          /\ a < b
          /\ calls[a].op = "Delete" /\ calls[a].pos = 2
          /\ calls[a].arg = HookDeletePolicyFailed
          /\ calls[b].op = "Delete" /\ calls[b].pos = 1
          /\ calls[b].arg = HookDeletePolicySucceeded

\* What the success cleanup is to call for n executed hooks: for the
\* positions n down to 1, the logs and then the deletion.
SuccessCleanupOrder(n) ==
    [m \in 1..(2 * n) |->
        <<IF m % 2 = 1 THEN "outputLogsByPolicy" ELSE "deleteByPolicy", n - ((m - 1) \div 2)>>]

\* C3: when every hook succeeded, the cleanup visits the executed hooks in
\* the reverse of the execution order and for each of them attempts the
\* "hook-succeeded" logs before the "hook-succeeded" deletion (all of them
\* unless a deletion fails).
C3_SuccessCleanupReverse ==
    shutdown = "success" =>
        LET visits == OpPos(SelectSeq(calls, IsSuccessCleanup))
        IN /\ IsPrefix(visits, SuccessCleanupOrder(Len(executingHooks)))
           /\ (pc = "done" /\ \A k \in 1..Len(CleanupDeletes) :
                                  CleanupDeletes[k].err = NoError) =>
                 visits = SuccessCleanupOrder(Len(executingHooks))

\* Three hooks succeeded and the cleanup visited all of them.
C3_Witness ==
    /\ pc = "done" /\ shutdown = "success" /\ result = NoError
    /\ Len(executingHooks) = 3
    /\ Len(SelectSeq(calls, IsSuccessCleanup)) = 6
    /\ Len(SelectSeq(calls, IsClusterDelete)) >= 2

\* C4: no cluster delete call is ever made for a hook of kind
\* CustomResourceDefinition, whatever its delete policies and its outcome.
C4_NeverDeleteCRD ==
    \A k \in 1..Len(calls) :
        calls[k].op = "Delete" => hooks[calls[k].hook].kind # "CustomResourceDefinition"

\* Delete-by-policy was called with each of the three policies for
\* CustomResourceDefinition hooks that carry the policy.
C4_Witness ==
    /\ pc = "done"
    /\ \A policy \in DeletePolicies :
          \E k \in 1..Len(calls) :
              /\ calls[k].op = "deleteByPolicy"
              /\ calls[k].arg = policy
              /\ hooks[calls[k].hook].kind = "CustomResourceDefinition"
              /\ HasDeletePolicy(schema, hooks[calls[k].hook], policy)

(***************************************************************************)
(* The accessor on its own: SetDefaultDeletePolicy called repeatedly on    *)
(* one hook of either schema version, for every delete-policy list of up   *)
(* to MaxPolicies elements.                                                *)
(***************************************************************************)
InitAccessor ==
    /\ schema \in Schemas
    /\ \E h \in HookUniverse, p \in SeqsUpTo(DeletePolicies, MaxPolicies) :
          hooks = <<[h EXCEPT !.deletePolicies = p]>>
    /\ hooks0 = hooks
    /\ event \in HookEvents
    /\ executingHooks = <<>>
    /\ pc = "accessor"
    /\ i = 0
    /\ j = 0
    /\ now = ClockStart
    /\ calls = <<>>
    /\ shutdown = "none"
    /\ err = NoError
    /\ waitErr = NoError
    /\ result = NoError
    /\ records = <<>>
    /\ applied = 0
    /\ NotInstalling

ApplySetDefaultDeletePolicy ==
    /\ pc = "accessor"
    /\ applied < MaxApply
    /\ hooks' = [hooks EXCEPT ![1] = SetDefaultDeletePolicy(schema, @)]
    /\ applied' = applied + 1
    /\ UNCHANGED <<schema, hooks0, event, executingHooks, pc, i, j, now, calls, shutdown,
                   err, waitErr, result, records>>
    /\ UNCHANGED installVars

NextAccessor == ApplySetDefaultDeletePolicy

SpecAccessor == InitAccessor /\ [][NextAccessor]_vars

\* C5: SetDefaultDeletePolicy turns an empty delete-policy list into exactly
\* <<before-hook-creation>>, leaves a non-empty one as it is, touches nothing
\* else of the hook, and a second application changes nothing, for a v1 and
\* for a v2 hook.
C5_SetDefaultDeletePolicy ==
    [][applied' = applied + 1 =>
          /\ Len(hooks[1].deletePolicies) = 0 =>
                hooks'[1].deletePolicies = <<"before-hook-creation">>
          /\ Len(hooks[1].deletePolicies) # 0 => hooks' = hooks
          /\ applied >= 1 => hooks' = hooks
          /\ hooks'[1] = [hooks[1] EXCEPT !.deletePolicies = hooks'[1].deletePolicies]]_vars

\* A v2 hook that had no delete policy, after two applications.
C5_Witness ==
    /\ pc = "accessor" /\ applied = 2 /\ schema = "v2"
    /\ hooks0[1].deletePolicies = <<>>
    /\ hooks[1].deletePolicies = <<HookDeletePolicyBeforeCreation>>

IsRecord(c) == c.op \in {"recordRelease", "Releases.Update"}
LastCall == calls[Len(calls)]
CreateFailed == err.msg = "warning: Hook failed"
BuildFailed == err.msg = "unable to build kubernetes object"

\* C6: when the creation of a hook's resource fails, the hook ends Failed
\* with its completion time set, execute returns the error with a cleanup
\* that is a no-op (the failed Create stays the last call ever made, so no
\* hook that succeeded before is deleted), and no later hook is built,
\* created or waited on.
C6_CreateFailure ==
    /\ [](CreateFailed =>
            LET hk == executingHooks[i]
            IN /\ Returned
               /\ err.hook = hk
               /\ hooks[hk].lastRun.phase = "Failed"
               /\ hooks[hk].lastRun.completedAt # 0
               /\ shutdown = "noop"
               /\ LastCall = Call("Create", i, hk, "")
               /\ \A k \in 1..Len(calls) :
                     /\ calls[k].pos <= i
                     /\ calls[k].op = "deleteByPolicy" =>
                           calls[k].arg = "before-hook-creation"
               /\ pc = "done" => result = NoError)
    /\ [][(pc = "create" /\ pc' # "getWaiter") => (pc' = "returned" /\ CreateFailed')]_vars

\* The creation of the second of three hooks failed and the cleanup has run;
\* the first hook succeeded and carries the hook-succeeded delete policy.
C6_Witness ==
    /\ pc = "done" /\ CreateFailed
    /\ i = 2 /\ Len(executingHooks) = 3
    /\ HookAt(1).lastRun.phase = HookPhaseSucceeded
    /\ HookAt(1).kind # "CustomResourceDefinition"
    /\ HasDeletePolicy(schema, HookAt(1), HookDeletePolicySucceeded)
    /\ executingHooks[1] # executingHooks[2]

\* C7: when a hook's manifest cannot be built, execute returns an error with
\* a cleanup that is a no-op, the failing step changes no hook and persists
\* nothing, no hook from that position on is recorded or created (so every
\* hook that only occurs from that position on keeps the LastRun it had when
\* execute was called), and the failed Build stays the last call ever made.
C7_BuildFailure ==
    /\ [](BuildFailed =>
            LET hk == executingHooks[i]
            IN /\ Returned
               /\ err.hook = hk
               /\ shutdown = "noop"
               /\ LastCall = Call("Build", i, hk, "validate")
               /\ \A k \in 1..Len(calls) :
                     (IsCreate(calls[k]) \/ IsRecord(calls[k])) => calls[k].pos < i
               /\ \A k \in 1..Len(records) : records[k].pos < i
               /\ \A q \in i..Len(executingHooks) :
                     executingHooks[q] \notin {executingHooks[p] : p \in 1..(i - 1)} =>
                        HookAt(q).lastRun = hooks0[executingHooks[q]].lastRun
               /\ pc = "done" => result = NoError)
    /\ [][(pc = "build" /\ pc' # "record") =>
             (pc' = "returned" /\ BuildFailed' /\ hooks' = hooks /\ records' = records)]_vars

\* The build of the second of three hooks failed and the cleanup has run; the
\* hook carries the record of an earlier run.
C7_Witness ==
    /\ pc = "done" /\ BuildFailed
    /\ i = 2 /\ Len(executingHooks) = 3
    /\ HookAt(2).lastRun = PriorLastRun
    /\ HookAt(1).lastRun.phase = HookPhaseSucceeded

\* C8: when the readiness wait of a hook returns, the hook's completion time
\* is set whatever the outcome and its phase is Failed exactly if the wait
\* returned an error and Succeeded exactly if it did not; a hook whose phase
\* is Succeeded or Failed always has its completion time set.
C8_WaitMarks ==
    /\ [](\A k \in 1..Len(hooks) :
             hooks[k].lastRun.phase \in {"Succeeded", "Failed"} =>
                hooks[k].lastRun.completedAt # 0)
    /\ [][pc = "wait" =>
             LET hk == executingHooks[i]
             IN /\ hooks'[hk].lastRun.completedAt = now
                /\ now # 0
                /\ hooks'[hk].lastRun.phase = "Failed" <=> waitErr' # NoError
                /\ hooks'[hk].lastRun.phase = "Succeeded" <=> waitErr' = NoError]_vars

\* The wait of the first hook succeeded and the wait of the second failed.
C8_Witness ==
    /\ shutdown = "failure" /\ i = 2
    /\ executingHooks[1] # executingHooks[2]
    /\ HookAt(1).lastRun.phase = HookPhaseSucceeded /\ HookAt(1).lastRun.completedAt # 0
    /\ HookAt(2).lastRun.phase = HookPhaseFailed /\ HookAt(2).lastRun.completedAt # 0

\* C9: for every hook that is built, the release is persisted exactly once,
\* after the start mark and before the creation call, and the snapshot
\* persisted shows that hook Running and every hook earlier in the order
\* Succeeded.
C9_RecordedRunning ==
    /\ \A k \in 1..Len(calls) :
          (calls[k].op = "Build" /\ calls[k].arg = "validate" /\ k < Len(calls)) =>
             IsRecord(calls[k + 1]) /\ calls[k + 1].pos = calls[k].pos
    /\ \A k \in 1..Len(calls) :
          (IsRecord(calls[k]) /\ k < Len(calls)) =>
             IsCreate(calls[k + 1]) /\ calls[k + 1].pos = calls[k].pos
    /\ \A k \in 1..Len(records) :
          /\ records[k].pos = k
          /\ records[k].hook = executingHooks[k]
          /\ records[k].hooks[records[k].hook].lastRun.phase = "Running"
          /\ records[k].hooks[records[k].hook].lastRun.startedAt # 0
          /\ \A q \in 1..(k - 1) :
                records[k].hooks[executingHooks[q]].lastRun.phase = "Succeeded"
    /\ \A a, b \in 1..Len(records) : records[a].hook = records[b].hook => a = b

\* C10: the cleanup returned after a wait failure returns the first error
\* met while deleting a hook that succeeded before, and deletes no further
\* hook after it; without such an error it has deleted all of them and
\* returns the wait error; this holds whether or not deleting the failed hook
\* itself failed.
C10_FailureCleanupResult ==
    (shutdown = "failure" /\ pc = "done") =>
        /\ Len(CleanupDeletes) >= 1
        /\ CleanupDeletes[1].pos = i /\ CleanupDeletes[1].arg = "hook-failed"
        /\ \A k \in 1..Len(PrevDeletes) :
              PrevDeletes[k].pos = k /\ PrevDeletes[k].arg = "hook-succeeded"
        /\ err = Error("WatchUntilReady", executingHooks[i])
        /\ IF FailedPrevDeletes = {}
           THEN result = err /\ Len(PrevDeletes) = i - 1
           ELSE LET first == CHOOSE k \in FailedPrevDeletes :
                                 \A m \in FailedPrevDeletes : k <= m
                IN result = PrevDeletes[first].err /\ Len(PrevDeletes) = first

\* The third hook failed; deleting it failed, deleting the first hook worked
\* and deleting the second hook failed with the error the cleanup returned.
C10_Witness ==
    /\ shutdown = "failure" /\ pc = "done" /\ i = 3
    /\ CleanupDeletes[1].err # NoError
    /\ Len(PrevDeletes) = 2
    /\ PrevDeletes[1].err = NoError
    /\ PrevDeletes[2].err # NoError
    /\ result = PrevDeletes[2].err
    /\ result # CleanupDeletes[1].err
    /\ \E k \in 1..Len(calls) : calls[k].op = "Delete" /\ calls[k].pos = 1

\* The callbacks the success cleanup called, and those of its deletions that
\* returned an error.
SuccessVisits == SelectSeq(calls, IsSuccessCleanup)
FailedSuccessDeletes ==
    {k \in 1..Len(SuccessVisits) :
        SuccessVisits[k].op = "deleteByPolicy" /\ SuccessVisits[k].err # NoError}

\* C11: in the cleanup returned after all hooks succeeded, the first deletion
\* error ends the reverse walk: it is returned, and neither logs nor a
\* deletion are attempted for a hook not yet visited; without a deletion
\* error every hook is visited and the cleanup returns no error.
C11_SuccessCleanupAbort ==
    shutdown = "success" =>
        /\ \A k \in FailedSuccessDeletes :
              /\ k = Len(SuccessVisits)
              /\ pc = "done"
              /\ result = SuccessVisits[k].err
              /\ \A m \in 1..Len(calls) :
                    (calls[m].op \in {"outputLogsByPolicy", "deleteByPolicy"}
                     /\ calls[m].arg = "hook-succeeded") =>
                        calls[m].pos >= SuccessVisits[k].pos
        /\ (pc = "done" /\ FailedSuccessDeletes = {}) =>
              /\ result = NoError
              /\ Len(SuccessVisits) = 2 * Len(executingHooks)

\* Of three hooks the third was deleted, the deletion of the second failed,
\* and the first was not visited.
C11_Witness ==
    /\ shutdown = "success" /\ pc = "done" /\ Len(executingHooks) = 3
    /\ Len(SuccessVisits) = 4
    /\ SuccessVisits[2].err = NoError
    /\ SuccessVisits[4].err # NoError
    /\ SuccessVisits[4].pos = 2
    /\ result = SuccessVisits[4].err
    /\ \E k \in 1..Len(calls) : calls[k].op = "Delete" /\ calls[k].pos = 3

IsLogCall(c) ==
    c.op \in {"outputLogsByPolicy", "GetPodList", "OutputContainerLogsForPodList"}
IsNotLogCall(c) == ~IsLogCall(c)
LogErrorMessages == {"unable to parse metadata.namespace", "getPodList", "outputLogs"}

\* C12: a failure of the log retrieval is never returned and changes neither
\* a hook nor what follows: whatever the outcome of the retrieval, the step
\* leaves the hooks as they are, continues at the same place with the same
\* errors, and adds nothing but log calls to the history.
C12_LogFailureIgnored ==
    /\ [](err.msg \notin LogErrorMessages /\ result.msg \notin LogErrorMessages)
    /\ [][pc = "logsFailed" =>
             /\ pc' = "returned" /\ shutdown' = "failure" /\ err' = waitErr
             /\ SelectSeq(calls', IsNotLogCall) = SelectSeq(calls, IsNotLogCall)
             /\ UNCHANGED <<schema, hooks, executingHooks, i, j, now, waitErr, result,
                            records>>]_vars
    /\ [][(pc = "succLoop" /\ j >= 1) =>
             /\ pc' = "succDelete"
             /\ SelectSeq(calls', IsNotLogCall) = SelectSeq(calls, IsNotLogCall)
             /\ UNCHANGED <<schema, hooks, executingHooks, i, j, now, shutdown, err,
                            waitErr, result, records>>]_vars

\* The pod list of a hook that succeeded could not be fetched; the cleanup
\* still deleted that hook in the cluster and returned no error.
C12_Witness ==
    /\ shutdown = "success" /\ pc = "done" /\ result = NoError
    /\ Len(executingHooks) >= 2
    /\ \E k \in 1..(Len(calls) - 1) :
          /\ calls[k].op = "GetPodList" /\ calls[k].pos = 2
          /\ calls[k + 1].op # "OutputContainerLogsForPodList"
          /\ \E m \in (k + 1)..Len(calls) :
                calls[m].op = "Delete" /\ calls[m].pos = 2

OtherSchema == IF schema = "v1" THEN "v2" ELSE "v1"

\* C13: the engine behaves alike on a v1 and on a v2 release.  Every step
\* the engine takes on a release of one schema is, from the same hooks and
\* with the same cluster outcome, also the step it takes on a release of the
\* other schema: the same delete, build, create, wait and log calls, the
\* same error and cleanup, the same LastRun and delete policies of every
\* hook.  Only the call that persists the release differs.  The steps that
\* select and sort the hooks, build, get the waiter and enter the cleanup do
\* not depend on the schema.
C13_SchemaEquivalence ==
    [][/\ PreDelete => PreDeleteFor(OtherSchema)
       /\ Record => RecordFor(OtherSchema, schema)
       /\ Create => CreateFor(OtherSchema)
       /\ WatchUntilReady => WatchUntilReadyFor(OtherSchema)
       /\ OutputLogsFailed => OutputLogsFailedFor(OtherSchema)
       /\ FailedDelete => FailedDeleteFor(OtherSchema)
       /\ PrevDelete => PrevDeleteFor(OtherSchema)
       /\ SuccLogs => SuccLogsFor(OtherSchema)
       /\ SuccDelete => SuccDeleteFor(OtherSchema)]_vars

\* A v2 release went through a failed run: one hook Succeeded, a later one
\* Failed, the release was persisted and the cleanup deleted in the cluster.
C13_Witness ==
    /\ schema = "v2" /\ pc = "done" /\ shutdown = "failure"
    /\ \E k \in 1..Len(calls) : calls[k].op = "Releases.Update"
    /\ \E k \in 1..Len(calls) : calls[k].op = "Delete"
    /\ \E a, b \in 1..Len(hooks) :
          /\ hooks[a].lastRun.phase = HookPhaseSucceeded
          /\ hooks[a].lastRun.startedAt >= ClockStart
          /\ hooks[b].lastRun.phase = HookPhaseFailed

(***************************************************************************)
(* Sequenced subchart installation (plans/subchart-sequencing.md).  A      *)
(* chart has a name, its own templates, and a list of dependencies; each   *)
(* dependency is a chart together with the names it is declared to depend  *)
(* on, in the depends-on field and in the depends-on annotation.  A        *)
(* manifest is the sequence of its documents, and strings.Join of the      *)
(* documents is that sequence.                                             *)
(***************************************************************************)
OrderedWaitStrategy == "ordered"
WaitStrategies == {OrderedWaitStrategy, "legacy", "hookOnly"}

NotExecutingHooks ==
    /\ schema = "v1"
    /\ hooks = <<>>
    /\ hooks0 = <<>>
    /\ event = "pre-install"
    /\ executingHooks = <<>>
    /\ pc = "idle"
    /\ i = 0
    /\ j = 0
    /\ now = ClockStart
    /\ calls = <<>>
    /\ shutdown = "none"
    /\ err = NoError
    /\ waitErr = NoError
    /\ result = NoError
    /\ records = <<>>
    /\ applied = 0

\* A sub-chart without dependencies of its own, with one template.
Leaf(n) == [name |-> n, templates |-> <<n \o ".yaml">>, dependencies |-> <<>>]
Dependency(c, dependsOn, annotated) ==
    [chart |-> c, dependsOn |-> dependsOn, annotated |-> annotated]

\* The names of the documented example, in the order of its dependencies.
ExampleNames == <<"nginx", "rabbitmq", "bar", "orphaned">>

\* The elements of S in the order they have in names.
SeqOf(names, S) == LET In(n) == n \in S IN SelectSeq(names, In)

\* The depends-on lists of at most MaxDeps names.
DependsOnLists ==
    {SeqOf(ExampleNames, S) :
        S \in {T \in SUBSET Range(ExampleNames) : Cardinality(T) <= MaxDeps}}

\* The chart named owner whose dependencies are the first n names, with the
\* depends-on lists d.
FlatChart(owner, n, d) ==
    [name |-> owner, templates |-> <<owner \o ".yaml">>,
     dependencies |-> [k \in 1..n |-> Dependency(Leaf(ExampleNames[k]), d[k], <<>>)]]

\* getDependsOnList: the union of both declarations.
getDependsOnList(dep) == Range(dep.dependsOn) \cup Range(dep.annotated)

\* findSubchartByName: the first dependency of that name, 0 for nil.
findSubchartByName(c, name) ==
    LET found == {k \in 1..Len(c.dependencies) : c.dependencies[k].chart.name = name}
    IN IF found = {} THEN 0 ELSE CHOOSE k \in found : \A m \in found : k <= m

\* The pairs of n nodes, as a sequence.
NodePairs(n) == [k \in 1..(n * n) |-> <<((k - 1) \div n) + 1, ((k - 1) % n) + 1>>]

\* buildHierarchicalDAG: a node per dependency, an edge <<d, s>> for
\* dag.AddEdge(depChart, subchart), d being installed before s: the pairs
\* for which a depName of subchart s is found as the sub-chart d.
buildHierarchicalDAG(c) ==
    LET n == Len(c.dependencies)
        AddEdge(e) == \E depName \in getDependsOnList(c.dependencies[e[2]]) :
                         findSubchartByName(c, depName) = e[1]
    IN [nodes |-> 1..n, edges |-> Range(SelectSeq(NodePairs(n), AddEdge))]

\* Nodes without any edge, in either direction.
Isolated(dag) == {n \in dag.nodes : \A e \in dag.edges : e[1] # n /\ e[2] # n}

\* A set of nodes as a batch, in the order of the dependency list.
Batch(dag, S) ==
    LET In(n) == n \in S
    IN SelectSeq([k \in 1..Cardinality(dag.nodes) |-> k], In)

\* Iterative peeling: the nodes all of whose predecessors are placed.
RECURSIVE Peel(_, _, _)
Peel(dag, placed, remaining) ==
    LET tier == {n \in remaining : \A e \in dag.edges : e[2] = n => e[1] \in placed}
    IN IF tier = {}
       THEN <<>>
       ELSE <<Batch(dag, tier)>> \o Peel(dag, placed \cup tier, remaining \ tier)

\* Batches by in-degree alone: isolated nodes land in the first batch.
GetInstallationBatchesKahn(dag) == Peel(dag, {}, dag.nodes)

\* GetInstallationBatches: the peeled tiers of the nodes that have an edge,
\* then the isolated nodes as the trailing batch.
GetInstallationBatches(dag) ==
    Peel(dag, {}, dag.nodes \ Isolated(dag))
        \o (IF Isolated(dag) = {} THEN <<>> ELSE <<Batch(dag, Isolated(dag))>>)

\* One invocation of installChartWithDAG: its chart, its batches, the batch
\* and the subchart of the batch it is at, and its two manifest lists.
Frame(c) ==
    [chart |-> c, pc |-> "dag", batches |-> <<>>, batchIndex |-> 0, n |-> 0,
     batchManifests |-> <<>>, allManifests |-> <<>>]

\* The start of installChartWithDAG, lines 115-116: build the graph and
\* compute the batches.  Nothing validates the graph here.
BuildDAG ==
    /\ ipc = "dag"
    /\ stack # <<>>
    /\ LET top == stack[Len(stack)]
           dag == buildHierarchicalDAG(top.chart)
       IN /\ top.pc = "dag"
          /\ stack' = [stack EXCEPT ![Len(stack)] =
                [top EXCEPT !.pc = "batch",
                            !.batches = GetInstallationBatches(dag),
                            !.batchIndex = 1, !.n = 1]]
    /\ UNCHANGED <<chart, waitStrategy, wait, kubeCalls, manifest, installErr, ipc>>
    /\ UNCHANGED hookVars

(***************************************************************************)
(* The batches of every chart with up to four dependencies: the install    *)
(* has entered installChartWithDAG and computes the batches.               *)
(***************************************************************************)
InitBatches ==
    /\ NotExecutingHooks
    /\ \E n \in 0..Len(ExampleNames) :
          \E d \in [1..n -> DependsOnLists] : chart = FlatChart("foo", n, d)
    /\ waitStrategy = OrderedWaitStrategy
    /\ wait = TRUE
    /\ stack = <<Frame(chart)>>
    /\ kubeCalls = <<>>
    /\ manifest = <<>>
    /\ installErr = NoInstallError
    /\ ipc = "dag"

NextBatches == BuildDAG

SpecBatches == InitBatches /\ [][NextBatches]_vars

(***************************************************************************)
(* The install.  Batch indices count from 1 where the Go loop counts from  *)
(* 0.  The error of the outermost invocation is the error of the install;  *)
(* what a nested invocation returns, nil or an error, reaches its caller   *)
(* as no manifests.                                                        *)
(***************************************************************************)
hasSubchartDependencies(c) == Len(c.dependencies) > 0
renderSubchartManifests(c) == c.templates
renderChartOwnManifests(c) == c.templates

\* "Current Behavior": all templates of the chart and of its subcharts,
\* rendered together.
RECURSIVE AllManifests(_), DependencyManifests(_, _)
AllManifests(c) == c.templates \o DependencyManifests(c, 1)
DependencyManifests(c, k) ==
    IF k > Len(c.dependencies)
    THEN <<>>
    ELSE AllManifests(c.dependencies[k].chart) \o DependencyManifests(c, k + 1)

KubeCall(op, c, batch, manifests, ok) ==
    [op |-> op, chart |-> c.name, batch |-> batch, manifests |-> manifests, ok |-> ok]
InstallError(kind, c, batch) ==
    [kind |-> kind, chart |-> c.name, batch |-> batch]

\* A dispatch that sequences under every strategy that waits.
UsesSequencingWhenWaiting(strategy) == strategy # "hookOnly"

\* i.WaitStrategy != OrderedWaitStrategy decides for installTraditional.
UsesSequencing(strategy) == strategy = OrderedWaitStrategy

installWithSequencing ==
    /\ ipc = "idle"
    /\ IF UsesSequencing(waitStrategy)
       THEN /\ ipc' = "dag"
            /\ stack' = <<Frame(chart)>>
       ELSE /\ ipc' = "traditional"
            /\ stack' = stack
    /\ UNCHANGED <<chart, waitStrategy, wait, kubeCalls, manifest, installErr>>
    /\ UNCHANGED hookVars

\* The existing behaviour: one batch with all manifests, one wait if asked.
installTraditional ==
    /\ ipc = "traditional"
    /\ LET all == AllManifests(chart)
           create(ok) == KubeCall("Create", chart, 0, all, ok)
           ready(ok) == KubeCall("WaitForReadiness", chart, 0, all, ok)
       IN \E outcome \in {"ok", "create", "ready"} :
             /\ manifest' = all
             /\ IF outcome = "create"
                THEN /\ kubeCalls' = Append(kubeCalls, create(FALSE))
                     /\ installErr' = InstallError("create", chart, 0)
                ELSE IF ~wait
                THEN /\ kubeCalls' = Append(kubeCalls, create(TRUE))
                     /\ installErr' = installErr
                ELSE /\ kubeCalls' = kubeCalls \o <<create(TRUE), ready(outcome = "ok")>>
                     /\ installErr' = IF outcome = "ok"
                                      THEN installErr
                                      ELSE InstallError("ready", chart, 0)
    /\ ipc' = "done"
    /\ UNCHANGED <<chart, waitStrategy, wait, stack>>
    /\ UNCHANGED hookVars

Top == stack[Len(stack)]
SetTop(f) == [stack EXCEPT ![Len(stack)] = f]

\* The end of one iteration of the batch loop.
NextBatch(f) ==
    [f EXCEPT !.pc = "batch", !.allManifests = @ \o f.batchManifests,
              !.batchManifests = <<>>, !.batchIndex = @ + 1, !.n = 1]

\* One iteration of "for _, subchart := range batch".
processSubchartRecursively ==
    /\ ipc = "dag"
    /\ stack # <<>>
    /\ Top.pc = "batch"
    /\ Top.batchIndex <= Len(Top.batches)
    /\ Top.n <= Len(Top.batches[Top.batchIndex])
    /\ LET subchart == Top.chart.dependencies[Top.batches[Top.batchIndex][Top.n]].chart
       IN IF hasSubchartDependencies(subchart)
          THEN stack' = Append(stack, Frame(subchart))
          ELSE stack' = SetTop([Top EXCEPT
                           !.batchManifests = @ \o renderSubchartManifests(subchart),
                           !.n = @ + 1])
    /\ UNCHANGED <<chart, waitStrategy, wait, kubeCalls, manifest, installErr, ipc>>
    /\ UNCHANGED hookVars

\* return fmt.Errorf(...), lines 135 and 142.  The error of the invocation
\* that installWithSequencing made is the error of the install.  The error
\* of a nested invocation comes back through processSubchartRecursively,
\* which has no error result, to lines 127-128, which check none: the
\* caller gets no manifests and goes on with the next sub-chart.
ReturnError(e) ==
    IF Len(stack) = 1
    THEN /\ installErr' = e
         /\ ipc' = "done"
         /\ stack' = stack
    ELSE /\ stack' = [SubSeq(stack, 1, Len(stack) - 1) EXCEPT ![Len(stack) - 1].n = @ + 1]
         /\ UNCHANGED <<installErr, ipc>>

\* KubeClient.Create(batchManifests) once the batch is rendered.
CreateBatch ==
    /\ ipc = "dag"
    /\ stack # <<>>
    /\ Top.pc = "batch"
    /\ Top.batchIndex <= Len(Top.batches)
    /\ Top.n > Len(Top.batches[Top.batchIndex])
    /\ IF Len(Top.batchManifests) > 0
       THEN \E ok \in BOOLEAN :
               /\ kubeCalls' = Append(kubeCalls,
                     KubeCall("Create", Top.chart, Top.batchIndex, Top.batchManifests, ok))
               /\ IF ~ok
                  THEN ReturnError(InstallError("create", Top.chart, Top.batchIndex))
                  ELSE /\ stack' = SetTop(IF wait THEN [Top EXCEPT !.pc = "wait"]
                                          ELSE NextBatch(Top))
                       /\ UNCHANGED <<installErr, ipc>>
       ELSE /\ stack' = SetTop(NextBatch(Top))
            /\ UNCHANGED <<kubeCalls, installErr, ipc>>
    /\ UNCHANGED <<chart, waitStrategy, wait, manifest>>
    /\ UNCHANGED hookVars

\* KubeClient.WaitForReadiness(batchManifests, timeout), if wait.
WaitForReadiness ==
    /\ ipc = "dag"
    /\ stack # <<>>
    /\ Top.pc = "wait"
    /\ \E ok \in BOOLEAN :
          /\ kubeCalls' = Append(kubeCalls,
                KubeCall("WaitForReadiness", Top.chart, Top.batchIndex,
                         Top.batchManifests, ok))
          /\ IF ok
             THEN /\ stack' = SetTop(NextBatch(Top))
                  /\ UNCHANGED <<installErr, ipc>>
             ELSE ReturnError(InstallError("ready", Top.chart, Top.batchIndex))
    /\ UNCHANGED <<chart, waitStrategy, wait, manifest>>
    /\ UNCHANGED hookVars

\* The manifests of an invocation with the chart's own ones in front.
FinalManifestsOwnFirst(f) == renderChartOwnManifests(f.chart) \o f.allManifests

\* After the loop: the chart's own manifests follow those of the batches.
FinalManifests(f) == f.allManifests \o renderChartOwnManifests(f.chart)

\* A return that writes what the nested invocation installed into the
\* caller's list of all manifests, as if the list were shared.
ReturnManifestsShared ==
    /\ ipc = "dag"
    /\ stack # <<>>
    /\ Top.pc = "batch"
    /\ Top.batchIndex > Len(Top.batches)
    /\ manifest' = FinalManifests(Top)
    /\ IF Len(stack) = 1
       THEN /\ stack' = <<>>
            /\ ipc' = "done"
       ELSE /\ LET caller == stack[Len(stack) - 1]
               IN stack' = [SubSeq(stack, 1, Len(stack) - 1) EXCEPT ![Len(stack) - 1] =
                              [caller EXCEPT !.allManifests = @ \o FinalManifests(Top),
                                             !.n = @ + 1]]
            /\ ipc' = ipc
    /\ UNCHANGED <<chart, waitStrategy, wait, kubeCalls, installErr>>
    /\ UNCHANGED hookVars

\* The end of installChartWithDAG: store the manifest in the release and
\* return nil.  A nested invocation hands that nil through
\* processSubchartRecursively to lines 127-128: its caller appends nothing
\* to its batch and goes on with the next sub-chart.
ReturnManifests ==
    /\ ipc = "dag"
    /\ stack # <<>>
    /\ Top.pc = "batch"
    /\ Top.batchIndex > Len(Top.batches)
    /\ manifest' = FinalManifests(Top)
    /\ IF Len(stack) = 1
       THEN /\ stack' = <<>>
            /\ ipc' = "done"
       ELSE /\ stack' = [SubSeq(stack, 1, Len(stack) - 1) EXCEPT ![Len(stack) - 1].n = @ + 1]
            /\ ipc' = ipc
    /\ UNCHANGED <<chart, waitStrategy, wait, kubeCalls, installErr>>
    /\ UNCHANGED hookVars

(***************************************************************************)
(* The charts that are installed: every chart with up to MaxSubcharts      *)
(* dependencies, the documented example, and charts with nested            *)
(* dependencies, a nested cycle, a sub-chart without templates, and both   *)
(* kinds of declaration.                                                   *)
(***************************************************************************)
FooChart ==
    [name |-> "foo", templates |-> <<"foo.yaml">>,
     dependencies |-> <<Dependency(Leaf("nginx"), <<>>, <<>>),
                        Dependency(Leaf("rabbitmq"), <<>>, <<>>),
                        Dependency(Leaf("bar"), <<"nginx", "rabbitmq">>, <<>>),
                        Dependency(Leaf("orphaned"), <<>>, <<>>)>>]

AppChart ==
    [name |-> "app", templates |-> <<"app.yaml">>,
     dependencies |-> <<Dependency(Leaf("cache"), <<>>, <<>>),
                        Dependency(Leaf("api"), <<"cache">>, <<>>)>>]

UmbrellaChart ==
    [name |-> "umbrella", templates |-> <<"umbrella.yaml">>,
     dependencies |-> <<Dependency(Leaf("db"), <<>>, <<>>),
                        Dependency(AppChart, <<"db">>, <<>>),
                        Dependency([name |-> "lib", templates |-> <<>>,
                                    dependencies |-> <<>>], <<>>, <<>>)>>]

InnerCycleChart ==
    [name |-> "inner", templates |-> <<"inner.yaml">>,
     dependencies |-> <<Dependency(Leaf("x"), <<"y">>, <<>>),
                        Dependency(Leaf("y"), <<>>, <<"x">>)>>]

OuterChart ==
    [name |-> "outer", templates |-> <<"outer.yaml">>,
     dependencies |-> <<Dependency(Leaf("base"), <<>>, <<>>),
                        Dependency(InnerCycleChart, <<"base">>, <<>>)>>]

AnnotatedChart ==
    [name |-> "anno", templates |-> <<"anno-1.yaml", "anno-2.yaml">>,
     dependencies |-> <<Dependency(Leaf("b"), <<"a", "ghost">>, <<"a", "a">>),
                        Dependency(Leaf("a"), <<>>, <<>>),
                        Dependency(Leaf("c"), <<>>, <<"b">>)>>]

\* A chart with two nested sub-charts in one batch and a sub-chart that
\* waits for both.
LeftChart ==
    [name |-> "left", templates |-> <<"left.yaml">>,
     dependencies |-> <<Dependency(Leaf("l1"), <<>>, <<>>),
                        Dependency(Leaf("l2"), <<"l1">>, <<>>)>>]

RightChart ==
    [name |-> "right", templates |-> <<"right.yaml">>,
     dependencies |-> <<Dependency(Leaf("r1"), <<>>, <<>>)>>]

TwinChart ==
    [name |-> "twin", templates |-> <<"twin.yaml">>,
     dependencies |-> <<Dependency(Leaf("top"), <<"left", "right">>, <<>>),
                        Dependency(LeftChart, <<>>, <<>>),
                        Dependency(RightChart, <<>>, <<>>)>>]

\* A chart with a nested sub-chart and a plain one in one batch.
HubChart ==
    [name |-> "hub", templates |-> <<"hub.yaml">>,
     dependencies |-> <<Dependency(Leaf("h1"), <<>>, <<>>)>>]

MixedChart ==
    [name |-> "mixed", templates |-> <<"mixed.yaml">>,
     dependencies |-> <<Dependency(Leaf("edge"), <<"hub", "side">>, <<>>),
                        Dependency(HubChart, <<>>, <<>>),
                        Dependency(Leaf("side"), <<>>, <<>>)>>]

CatalogueCharts ==
    {FooChart, UmbrellaChart, OuterChart, AnnotatedChart, TwinChart, MixedChart}

InitInstall ==
    /\ NotExecutingHooks
    /\ \/ \E n \in 0..MaxSubcharts :
             \E d \in [1..n -> DependsOnLists] : chart = FlatChart("foo", n, d)
       \/ chart \in CatalogueCharts
    /\ waitStrategy \in WaitStrategies
    /\ wait \in BOOLEAN
    /\ stack = <<>>
    /\ kubeCalls = <<>>
    /\ manifest = <<>>
    /\ installErr = NoInstallError
    /\ ipc = "idle"

NextInstall ==
    \/ installWithSequencing
    \/ installTraditional
    \/ BuildDAG
    \/ processSubchartRecursively
    \/ CreateBatch
    \/ WaitForReadiness
    \/ ReturnManifests

SpecInstall == InitInstall /\ [][NextInstall]_vars

(***************************************************************************)
(* Vocabulary of the claims about the install.                             *)
(***************************************************************************)
\* The names of the sub-charts in the batches of an invocation.
BatchNames(f) ==
    [b \in 1..Len(f.batches) |->
        [k \in 1..Len(f.batches[b]) |-> f.chart.dependencies[f.batches[b][k]].chart.name]]

\* Sub-chart s of chart c declares the name of sub-chart d.
DependsOn(c, s, d) == c.dependencies[d].chart.name \in getDependsOnList(c.dependencies[s])

\* The sub-charts the sub-charts of S are declared for, and those reached
\* from S in up to k steps.
Successors(dag, S) == {e[2] : e \in {f \in dag.edges : f[1] \in S}}

RECURSIVE Closure(_, _, _)
Closure(dag, S, k) ==
    IF k = 0 THEN S ELSE Closure(dag, S \cup Successors(dag, S), k - 1)

\* The sub-charts that lie on a cycle: those that reach themselves.
CycleNodes(dag) ==
    {n \in dag.nodes :
        n \in Closure(dag, Successors(dag, {n}), Cardinality(dag.nodes))}

\* The declarations of c admit an order: no sub-chart reaches itself.
Acyclic(c) == CycleNodes(buildHierarchicalDAG(c)) = {}

IsKubeCreate(c) == c.op = "Create"
\* The calls of the invocation for the chart that was handed in.
ByChart(c) == c.chart = chart.name

RECURSIVE Concat(_)
Concat(ss) == IF ss = <<>> THEN <<>> ELSE Head(ss).manifests \o Concat(Tail(ss))

\* C14: for the documented example, owner foo with nginx, rabbitmq, bar
\* (depending on nginx and rabbitmq) and orphaned, the batches are
\* [nginx, rabbitmq], [bar], [orphaned], and they are installed as three
\* creation calls, the third with orphaned and foo's own resources together.
C14_ExampleBatches ==
    (chart = FooChart /\ waitStrategy = OrderedWaitStrategy) =>
        /\ (stack # <<>> /\ stack[1].pc # "dag") =>
              BatchNames(stack[1]) = <<<<"nginx", "rabbitmq">>, <<"bar">>, <<"orphaned">>>>
        /\ (ipc = "done" /\ installErr = NoInstallError) =>
              /\ Len(SelectSeq(kubeCalls, IsKubeCreate)) = 3
              /\ SelectSeq(kubeCalls, IsKubeCreate)[1].manifests
                    = <<"nginx.yaml", "rabbitmq.yaml">>
              /\ SelectSeq(kubeCalls, IsKubeCreate)[2].manifests = <<"bar.yaml">>
              /\ Range(SelectSeq(kubeCalls, IsKubeCreate)[3].manifests)
                    = {"orphaned.yaml", "foo.yaml"}

\* C15: for every acyclic graph the batches hold every sub-chart exactly
\* once, a sub-chart is in a later batch than every sub-chart it depends on,
\* and the sub-charts without any relation are in the final batch, the one
\* the chart's own manifests follow, never in an earlier one.
C15_BatchesLayered ==
    (stack # <<>> /\ (stack[1].pc # "dag" \/ ipc = "done") /\ Acyclic(chart)) =>
        LET f == stack[1]
            n == Len(chart.dependencies)
            Tiers(s) == {b \in 1..Len(f.batches) :
                            \E k \in 1..Len(f.batches[b]) : f.batches[b][k] = s}
            Places(s) == {<<b, k>> \in (1..Len(f.batches)) \X (1..n) :
                            k <= Len(f.batches[b]) /\ f.batches[b][k] = s}
        IN /\ ipc = "dag" /\ f.pc = "batch" /\ installErr = NoInstallError
           /\ \A s \in 1..n : Cardinality(Places(s)) = 1
           /\ \A s, d \in 1..n :
                 DependsOn(chart, s, d) =>
                    \A bs \in Tiers(s), bd \in Tiers(d) : bd < bs
           /\ \A s \in 1..n :
                 (\A d \in 1..n : ~DependsOn(chart, s, d) /\ ~DependsOn(chart, d, s)) =>
                    Tiers(s) = {Len(f.batches)}

\* The batches of the example are computed: three, with orphaned alone in
\* the last.
C15_Witness ==
    /\ chart = FooChart /\ stack # <<>> /\ stack[1].pc = "batch"
    /\ Len(stack[1].batches) = 3
    /\ stack[1].batches[3] = <<4>>
    /\ kubeCalls = <<>>

\* C16: when the sub-charts of the chart depend on each other in a cycle,
\* the ordered install ends with a cycle error without a creation or a
\* readiness wait issued, and no invocation gets to its batches with a
\* cyclic graph.
C16_CycleRejected ==
    waitStrategy = OrderedWaitStrategy =>
        /\ \A k \in 1..Len(stack) : stack[k].pc # "dag" => Acyclic(stack[k].chart)
        /\ (ipc = "done" /\ ~Acyclic(chart)) =>
              /\ installErr.kind = "cycle"
              /\ installErr.chart = chart.name
              /\ kubeCalls = <<>>

\* C17: with wait enabled, the creation of a batch is issued only after the
\* readiness wait of every earlier batch of the same invocation that was
\* created has returned successfully; so when a sub-chart is created, every
\* sub-chart it depends on has been reported ready.
C17_WaitBeforeNextBatch ==
    (waitStrategy = OrderedWaitStrategy /\ wait) =>
        \A k \in 1..Len(kubeCalls) :
            kubeCalls[k].op = "Create" =>
               /\ \A m \in 1..(k - 1) :
                     (kubeCalls[m].op = "Create" /\ kubeCalls[m].chart = kubeCalls[k].chart
                      /\ kubeCalls[m].batch < kubeCalls[k].batch) =>
                        \E w \in (m + 1)..(k - 1) :
                           /\ kubeCalls[w].op = "WaitForReadiness" /\ kubeCalls[w].ok
                           /\ kubeCalls[w].chart = kubeCalls[m].chart
                           /\ kubeCalls[w].batch = kubeCalls[m].batch
                           /\ kubeCalls[w].manifests = kubeCalls[m].manifests
               /\ ByChart(kubeCalls[k]) =>
                     \A s, d \in 1..Len(chart.dependencies) :
                        (/\ DependsOn(chart, s, d)
                         /\ Range(AllManifests(chart.dependencies[s].chart)) # {}
                         /\ Range(AllManifests(chart.dependencies[s].chart))
                               \subseteq Range(kubeCalls[k].manifests)) =>
                           \A doc \in Range(AllManifests(chart.dependencies[d].chart)) :
                              \E w \in 1..(k - 1) :
                                 /\ kubeCalls[w].op = "WaitForReadiness" /\ kubeCalls[w].ok
                                 /\ doc \in Range(kubeCalls[w].manifests)

\* C18: when the creation or the readiness wait of a batch fails, the
\* install ends with an error that names that batch of that chart; the
\* failing call is the last call made, so nothing of a later batch is
\* created, and no call deletes what earlier batches or this one created.
C18_BatchFailureAborts ==
    waitStrategy = OrderedWaitStrategy =>
        \A k \in 1..Len(kubeCalls) :
            /\ kubeCalls[k].op \in {"Create", "WaitForReadiness"}
            /\ ~kubeCalls[k].ok =>
                  /\ k = Len(kubeCalls)
                  /\ ipc = "done"
                  /\ installErr.kind = (IF kubeCalls[k].op = "Create" THEN "create"
                                        ELSE "ready")
                  /\ installErr.chart = kubeCalls[k].chart
                  /\ installErr.batch = kubeCalls[k].batch

C20_TraditionalInstall ==
    waitStrategy # OrderedWaitStrategy =>
        /\ stack = <<>>
        /\ (\A k \in 1..Len(kubeCalls) : kubeCalls[k].ok) => installErr = NoInstallError
        /\ Len(kubeCalls) <= 2
        /\ ipc = "done" => Len(kubeCalls) >= 1
        /\ Len(kubeCalls) >= 1 =>
              /\ kubeCalls[1].op = "Create"
              /\ Len(kubeCalls[1].manifests) = Len(AllManifests(chart))
              /\ Range(chart.templates) \subseteq Range(kubeCalls[1].manifests)
              /\ \A k \in 1..Len(chart.dependencies) :
                    Range(AllManifests(chart.dependencies[k].chart))
                       \subseteq Range(kubeCalls[1].manifests)
        /\ Len(kubeCalls) = 2 =>
              /\ wait /\ kubeCalls[1].ok
              /\ kubeCalls[2].op = "WaitForReadiness"
              /\ kubeCalls[2].manifests = kubeCalls[1].manifests
        /\ (ipc = "done" /\ installErr = NoInstallError /\ wait) => Len(kubeCalls) = 2

\* Two sub-charts that depend on each other were installed under the legacy
\* strategy in one batch, without an error.
C20_Witness ==
    /\ waitStrategy = "legacy" /\ wait
    /\ ~Acyclic(chart)
    /\ ipc = "done" /\ installErr = NoInstallError
    /\ Len(kubeCalls) = 2
    /\ Len(kubeCalls[1].manifests) = 3


\* execute has returned because KubeClient.GetWaiter failed for the hook at
\* position i.
WaiterUnavailable ==
    /\ Returned
    /\ i \in 1..Len(executingHooks)
    /\ err = Error("unable to get waiter", executingHooks[i])

\* C22: when execute aborts for a hook whose start was recorded but that was
\* never waited on (the resource was created, the waiter could not be
\* obtained), the hook's phase is Unknown, its start time is set, its
\* completion time is unset and the returned cleanup is the no-op; and
\* whenever execute has returned, no hook of the release has phase Running.
C22_AbortLeavesUnknown ==
    /\ WaiterUnavailable =>
          /\ HookAt(i).lastRun.phase = HookPhaseUnknown
          /\ HookAt(i).lastRun.startedAt >= ClockStart
          /\ HookAt(i).lastRun.completedAt = 0
          /\ shutdown = "noop"
          /\ \E k \in 1..Len(records) : records[k].pos = i
          /\ \E k \in 1..Len(calls) : IsCreate(calls[k]) /\ calls[k].pos = i
          /\ \A k \in 1..Len(calls) : ~(calls[k].op = "WatchUntilReady" /\ calls[k].pos = i)
          /\ pc = "done" => result = NoError
    /\ Returned =>
          \A k \in 1..Len(hooks) : hooks[k].lastRun.phase # HookPhaseRunning

\* The waiter of the second hook could not be obtained after the first hook
\* succeeded, and the no-op cleanup has run.
C22_Witness ==
    /\ WaiterUnavailable
    /\ pc = "done"
    /\ i = 2
    /\ HookAt(1).lastRun.phase = HookPhaseSucceeded
    /\ HookAt(2).lastRun.phase = HookPhaseUnknown


\* The hook at position p carries the Succeeded mark of this call.
SucceededInCall(p) ==
    /\ HookAt(p).lastRun.phase = HookPhaseSucceeded
    /\ HookAt(p).lastRun.startedAt >= ClockStart

\* The hooks of the release whose start was marked in this call and whose
\* completion was not.
Started ==
    {k \in 1..Len(hooks) : /\ hooks[k].lastRun.startedAt >= ClockStart
                           /\ hooks[k].lastRun.completedAt = 0}

\* C23: at every point of an execute call the positions of the execution
\* order whose hook is marked Succeeded in this call are a prefix of the
\* order; while a hook's resource is being created (and until its wait is
\* over) every hook at an earlier position has phase Succeeded; and at most
\* one hook is between its start mark and its completion mark.
C23_SucceededPrefix ==
    pc # "idle" =>
       /\ \A p, q \in 1..Len(executingHooks) :
             (p < q /\ SucceededInCall(q)) => SucceededInCall(p)
       /\ pc \in {"create", "getWaiter", "wait"} =>
             \A p \in 1..(i - 1) : HookAt(p).lastRun.phase = HookPhaseSucceeded
       /\ Cardinality(Started) <= 1


\* deleteByPolicy as execHookCore calls it before a hook is built.
IsPreDelete(c) == c.op = "deleteByPolicy" /\ c.arg = HookDeletePolicyBeforeCreation
\* KubeClient.Build of a hook's manifest (with validation), as opposed to
\* the Build of a deletion.
IsBuild(c) == c.op = "Build" /\ c.arg = "validate"
\* execute has returned because the before-hook-creation deletion failed.
PreDeleteFailed ==
    /\ Returned
    /\ \E k \in 1..Len(calls) : IsPreDelete(calls[k]) /\ calls[k].err # NoError

\* The step of the loop that defaults the delete policy and deletes by
\* before-hook-creation, for the hook at position i.
C24_PreDeleteStep ==
    (pc = "preDelete" /\ pc' # "preDelete") =>
       LET hk == executingHooks[i]
           first == calls'[Len(calls) + 1]
       IN /\ \A k \in 1..Len(calls) : calls[k].pos # i
          /\ Len(hooks') = Len(hooks)
          /\ \A k \in 1..Len(hooks) : hooks'[k].lastRun = hooks[k].lastRun
          /\ \A k \in 1..Len(hooks) : k # hk => hooks'[k] = hooks[k]
          /\ hooks'[hk].deletePolicies =
                IF Len(hooks[hk].deletePolicies) = 0
                THEN <<HookDeletePolicyBeforeCreation>>
                ELSE hooks[hk].deletePolicies
          /\ IsPreDelete(first) /\ first.pos = i /\ first.hook = hk
          /\ (Len(hooks[hk].deletePolicies) = 0
                 /\ hooks[hk].kind # "CustomResourceDefinition") =>
                Len(calls') > Len(calls) + 1
          /\ \A k \in (Len(calls) + 1)..Len(calls') :
                ~IsBuild(calls'[k]) /\ ~IsCreate(calls'[k])
          /\ IF first.err # NoError
             THEN pc' = "returned" /\ shutdown' = "noop" /\ err' = first.err
             ELSE pc' = "build" /\ shutdown' = shutdown /\ err' = err

\* C24: for every hook the before-hook-creation delete-by-policy step runs
\* on the hook with its delete policy defaulted, before the hook's manifest
\* is built and created; the step changes no LastRun; when the deletion
\* fails, execute returns the deletion's error with the no-op cleanup, and
\* no creation is ever issued for the hook's position or for a later one.
C24_PreDeleteFirst ==
    /\ [][C24_PreDeleteStep]_vars
    /\ [](\A k \in 1..Len(calls) :
             (IsBuild(calls[k]) \/ IsCreate(calls[k])) =>
                \E m \in 1..(k - 1) : /\ IsPreDelete(calls[m])
                                      /\ calls[m].pos = calls[k].pos
                                      /\ calls[m].err = NoError)
    /\ [](PreDeleteFailed =>
             /\ shutdown = "noop"
             /\ \E k \in 1..Len(calls) :
                   IsPreDelete(calls[k]) /\ calls[k].pos = i /\ calls[k].err = err
             /\ \A k \in 1..Len(calls) :
                   (IsBuild(calls[k]) \/ IsCreate(calls[k])) => calls[k].pos < i
             /\ \A k \in 1..Len(calls) : ~IsCleanupDelete(calls[k])
             /\ pc = "done" => result = NoError)

\* The before-hook-creation deletion of the second hook failed after the
\* first hook succeeded: the second hook's LastRun is as it was on entry,
\* and the no-op cleanup has run.
C24_Witness ==
    /\ PreDeleteFailed
    /\ pc = "done"
    /\ i = 2
    /\ executingHooks[1] # executingHooks[2]
    /\ HookAt(1).lastRun.phase = HookPhaseSucceeded
    /\ HookAt(2).lastRun = hooks0[executingHooks[2]].lastRun
    /\ hooks0[executingHooks[2]].deletePolicies = <<>>
    /\ HookAt(2).deletePolicies = <<HookDeletePolicyBeforeCreation>>


\* The wait for the hook at position p was reached and succeeded: a failed
\* wait is followed by outputLogsByPolicy(hook-failed) for that position.
WaitSucceeded(p) ==
    /\ \E k \in 1..Len(calls) : calls[k].op = "WatchUntilReady" /\ calls[k].pos = p
    /\ \A k \in 1..Len(calls) :
          ~(/\ calls[k].op = "outputLogsByPolicy"
            /\ calls[k].arg = HookOutputPolicyFailed
            /\ calls[k].pos = p)

\* The steps in which the caller invokes the shutdown func it was handed.
C25_CleanupOnce ==
    /\ pc # "done"
    /\ pc' = "returned" => (pc \in {"idle", "returned"} \/ Executing)
    /\ pc = "returned" => pc' \in {"returned", "shutdownNoOp", "failedDelete", "succLoop"}
    /\ pc' \in {"shutdownNoOp", "failedDelete"} => pc = "returned"
    /\ pc' = "succLoop" => pc \in {"returned", "succLoop", "succDelete"}
    /\ pc \in {"succLoop", "succDelete"} => pc' \in {"succLoop", "succDelete", "done"}

\* C25: execHook, which runs execute and then at once the cleanup execute
\* returned, returns no error exactly when the wait of every selected hook
\* succeeded and every hook-succeeded deletion of the cleanup succeeded;
\* when execute returned an error execHook returns an error; and the cleanup
\* is entered once, from the state execute returned in, and never again.
C25_ExecHookResult ==
    /\ [][C25_CleanupOnce]_vars
    /\ [](pc = "done" =>
             /\ execHook(err, result) = NoError <=>
                   /\ \A p \in 1..Len(executingHooks) : WaitSucceeded(p)
                   /\ \A k \in 1..Len(calls) :
                         (/\ calls[k].op = "deleteByPolicy"
                          /\ calls[k].arg = HookDeletePolicySucceeded) =>
                            calls[k].err = NoError
             /\ err # NoError => execHook(err, result) # NoError
             /\ shutdown \in {"noop", "failure", "success"}
             /\ err # NoError <=> shutdown \in {"noop", "failure"}
             /\ shutdown = "failure" =>
                   Cardinality({k \in 1..Len(calls) :
                                   /\ calls[k].op = "deleteByPolicy"
                                   /\ calls[k].arg = HookDeletePolicyFailed}) = 1)

\* execute returned the wait error of the second hook, the cleanup it
\* returned has run, and execHook returns that error.
C25_Witness ==
    /\ pc = "done"
    /\ i = 2
    /\ shutdown = "failure"
    /\ WaitSucceeded(1)
    /\ ~WaitSucceeded(2)
    /\ err # NoError
    /\ result = err
    /\ execHook(err, result) = err


\* The hook at index h of the release is bound to the event executed.
Bound(h) == HasEvent(schema, hooks0[h], event)

\* C26: execute and its cleanup make no call (delete, build, create, wait,
\* logs, record) for a hook that is not bound to the event, and leave such
\* a hook, its LastRun and its delete policies, as it was; every hook bound
\* to the event stands in the execution sequence exactly once.
C26_OnlyBoundHooksOnce ==
    pc # "idle" =>
       /\ \A k \in 1..Len(calls) : Bound(calls[k].hook)
       /\ \A h \in 1..Len(hooks) : ~Bound(h) => hooks[h] = hooks0[h]
       /\ \A h \in 1..Len(hooks) :
             Bound(h) =>
                Cardinality({p \in 1..Len(executingHooks) : executingHooks[p] = h}) = 1


(***************************************************************************)
(* The sort on its own: sort.SliceStable with hookByWeight's order applied *)
(* repeatedly to the hooks of a release, for every sequence of up to       *)
(* MaxSortLen hooks over three weights and three names.                    *)
(***************************************************************************)
MaxSortLen == 3

SortWeights == {-1, 0, 1}
SortNames == {NameA, NameAB, NameB}
SortHooks ==
    {[path |-> "hooks/sorted.yaml", name |-> n, kind |-> "Job", weight |-> w,
      events |-> <<"pre-install">>,
      deletePolicies |-> <<>>,
      outputLogPolicies |-> <<>>,
      lastRun |-> ZeroLastRun] : n \in SortNames, w \in SortWeights}

InitSort ==
    /\ schema \in Schemas
    /\ hooks \in SeqsUpTo(SortHooks, MaxSortLen)
    /\ hooks0 = hooks
    /\ event \in HookEvents
    /\ executingHooks = BuildExecutingHooks(hooks, Len(hooks), event)
    /\ pc = "sort"
    /\ i = 0
    /\ j = 0
    /\ now = ClockStart
    /\ calls = <<>>
    /\ shutdown = "none"
    /\ err = NoError
    /\ waitErr = NoError
    /\ result = NoError
    /\ records = <<>>
    /\ applied = 0
    /\ NotInstalling

\* Lines 68-73, called again on its own result.
ApplySort ==
    /\ pc = "sort"
    /\ applied < MaxApply
    /\ executingHooks' = SortExecutingHooks(executingHooks, hooks)
    /\ applied' = applied + 1
    /\ UNCHANGED <<schema, hooks, hooks0, event, pc, i, j, now, calls, shutdown, err,
                   waitErr, result, records>>
    /\ UNCHANGED installVars

NextSort == ApplySort

SpecSort == InitSort /\ [][NextSort]_vars

\* "a sorts no later than b": the preorder of the less function.
NotAfter(a, b) == ~Less(hooks, b, a)
\* A sequence of hook indices in which no hook stands before one it sorts
\* after.
Ordered(s) == \A p, q \in 1..Len(s) : p < q => NotAfter(s[p], s[q])

\* One application of the sort.
C28_SortStep ==
    applied' = applied + 1 =>
       /\ Len(executingHooks') = Len(executingHooks)
       /\ Range(executingHooks') = Range(executingHooks)
       /\ Ordered(executingHooks')
       /\ Ordered(executingHooks) => executingHooks' = executingHooks
       /\ applied >= 1 => executingHooks' = executingHooks

\* C28: the order hooks are sorted by, (weight, name), is a total preorder
\* on the hooks of a release: any two hooks are comparable and the
\* comparison is transitive; the sort returns an ordered permutation of its
\* input, returns an ordered input unchanged, and so sorting its result
\* again changes nothing.
C28_SortIdempotent ==
    /\ [](\A a, b \in 1..Len(hooks) : NotAfter(a, b) \/ NotAfter(b, a))
    /\ [](\A a, b, c \in 1..Len(hooks) :
             (NotAfter(a, b) /\ NotAfter(b, c)) => NotAfter(a, c))
    /\ [][C28_SortStep]_vars

\* Three hooks sorted twice, two of them equal in weight and name and
\* listed behind a hook that sorts after them, the third of the same weight
\* under a name that extends theirs.
C28_Witness ==
    /\ pc = "sort"
    /\ applied = 2
    /\ Len(hooks) = 3
    /\ hooks[1].name = NameAB /\ hooks[2].name = NameA /\ hooks[3].name = NameA
    /\ hooks[1].weight = hooks[2].weight /\ hooks[2].weight = hooks[3].weight
    /\ executingHooks = <<2, 3, 1>>


\* How often x stands in the sequence s.
Occurrences(s, x) == Cardinality({k \in 1..Len(s) : s[k] = x})
\* The documents handed to a creation call that succeeded, call after call.
IsCreated(c) == c.op = "Create" /\ c.ok
CreatedDocuments == Concat(SelectSeq(kubeCalls, IsCreated))

\* C27: when an ordered install has returned without error, every document
\* of the manifest it returned was handed to KubeClient.Create exactly once,
\* whether it belongs to the chart, to a sub-chart or to a sub-chart of a
\* sub-chart: none was created by a nested invocation and again with the
\* batch of the caller, and none is returned that was never created.
C27_CreatedExactlyOnce ==
    (ipc = "done" /\ UsesSequencing(waitStrategy) /\ installErr = NoInstallError) =>
       \A k \in 1..Len(manifest) : Occurrences(CreatedDocuments, manifest[k]) = 1


\* The manifest of an ordered install of chart c as its declarations alone
\* fix it: batch after batch, the sub-charts of a batch in the order of the
\* batch, nothing for a sub-chart with sub-charts of its own, the chart's
\* own documents last.
RECURSIVE OrderedBatches(_, _, _), OrderedBatch(_, _, _)
OrderedBatch(c, batch, k) ==
    IF k > Len(batch) THEN <<>>
    ELSE LET subchart == c.dependencies[batch[k]].chart
         IN (IF hasSubchartDependencies(subchart) THEN <<>>
             ELSE renderSubchartManifests(subchart))
            \o OrderedBatch(c, batch, k + 1)
OrderedBatches(c, batches, b) ==
    IF b > Len(batches) THEN <<>>
    ELSE OrderedBatch(c, batches[b], 1) \o OrderedBatches(c, batches, b + 1)
OrderedManifest(c) ==
    OrderedBatches(c, GetInstallationBatches(buildHierarchicalDAG(c)), 1)
        \o renderChartOwnManifests(c)

\* A step of the ordered install that issues a creation call: the call is
\* that of the running invocation for its current batch, and it hands over
\* what every sub-chart of the batch returned, in the order of the batch.
C21_CreateAfterNodes ==
    (/\ ipc = "dag"
     /\ Len(kubeCalls') = Len(kubeCalls) + 1
     /\ IsKubeCreate(kubeCalls'[Len(kubeCalls')])) =>
       LET call == kubeCalls'[Len(kubeCalls')]
       IN /\ call.chart = Top.chart.name
          /\ call.batch = Top.batchIndex
          /\ call.manifests = OrderedBatch(Top.chart, Top.batches[Top.batchIndex], 1)

\* No step changes a manifest list of an invocation that waits for a nested
\* one: the lists are written by the running invocation only.
C21_AccumulatorOwned ==
    \A k \in 1..Len(stack) :
       (k < Len(stack) /\ k <= Len(stack')) =>
          /\ stack'[k].allManifests = stack[k].allManifests
          /\ stack'[k].batchManifests = stack[k].batchManifests

====
